---- MODULE Spec2Model ----
(***************************************************************************)
(* A model of the web research agent: the orchestrator                    *)
(* (src/src/agent/research_agent.py), the relevance engine                 *)
(* (src/src/tools/content_analyzer.py), the retrieval broker               *)
(* (src/src/tools/search_tool.py), the classifier and the synthesizer      *)
(* (src/src/agent/query_analyzer.py, response_generator.py) and the error  *)
(* mapping (src/src/utils/error_handler.py).                               *)
(*                                                                         *)
(* Strings are modelled as sequences of words; a message built by an       *)
(* f-string is the sequence of its fixed parts and of the values it        *)
(* interpolates.                                                           *)
(***************************************************************************)
EXTENDS Integers, Sequences, FiniteSets, TLC

VARIABLES
    conversation_history,   \* ResearchAgent.conversation_history
    call,                   \* per thread: the frame of its research() call
    audit,                  \* history variable: what has been called so far
    broker,                 \* one SearchTool and the frame of its search() call
    stage,                  \* one call of the classifier, the relevance engine
                            \* or the synthesizer, and the documents it holds
    scraper,                \* one WebScraper and the frame of its scrape() call
    app                     \* the web application: the provider of its agent
                            \* and the request it is serving

orch_vars == <<conversation_history, call, audit>>
vars == <<conversation_history, call, audit, broker, stage, scraper, app>>

----------------------------------------------------------------------------
(* Bounds of the model *)

MaxCalls == 2       \* research() calls begun in one run
MaxCand == 2        \* candidates a search returns
NumThreads == 2     \* host threads that may call the agent

Threads == 1..NumThreads

----------------------------------------------------------------------------
(* Generic helpers *)

Range(s) == {s[i] : i \in 1..Len(s)}

SeqsUpTo(S, n) == UNION {[1..k -> S] : k \in 0..n}

Missing == "<missing>"      \* a key that a dict does not hold

\* a sequence given by a rule, with its elements computed once
Eager(s) == SubSeq(s, 1, Len(s))

\* F(e), with e computed once
With(e, F(_)) == CHOOSE r \in {F(x) : x \in {e}} : TRUE

----------------------------------------------------------------------------
(* The orchestrator: ResearchAgent *)

Queries == {"q1", "q2"}

Collaborators == {"classifier", "broker", "extractor", "relevance", "synthesizer"}

\* mutant: the assistant's turn is not recorded
AppendTurn_UserOnly(h, role, content) ==
    IF role = "assistant" THEN h ELSE Append(h, [role |-> role, content |-> content])

\* conversation_history.append({"role": role, "content": content})
AppendTurn(h, role, content) == Append(h, [role |-> role, content |-> content])

\* reset_conversation: self.conversation_history = []
ClearedHistory == <<>>

\* Exceptions: the class name and the words of str(e)
Exc(cls, text) == [cls |-> cls, text |-> text]
NoExc == Exc("", <<>>)
KeyErrorOf(k) == Exc("KeyError", <<k>>)
TypeErrorOf(w) == Exc("TypeError", <<w>>)

\* What a collaborator may raise
Raised == {Exc("ConnectionError", <<"refused">>),
           Exc("RuntimeError", <<"Invalid", "API_KEY">>)}


\* A dict is a record with the set of keys it holds; a key outside `keys`
\* is absent, whatever the record's field says.
Has(d, k) == k \in d.keys

IntentKeys == {"query_type", "topics", "search_terms", "time_sensitivity",
               "required_depth", "result_limit"}

NoAnalysis == [keys |-> {}, search_terms |-> <<>>, query_type |-> "", result_limit |-> 0]

\* What query_analyzer.analyze may hand back to the orchestrator: a full
\* intent, an intent without result_limit (as the tests' mocks), a value
\* without the keys the orchestrator reads.
ClassifierReturns(q) ==
    {[keys |-> IntentKeys, search_terms |-> <<q>>, query_type |-> "factual",
      result_limit |-> 5],
     [keys |-> IntentKeys \ {"result_limit"}, search_terms |-> <<q, "more">>,
      query_type |-> "news", result_limit |-> 0],
     NoAnalysis}

\* A candidate of the broker: a dict with url and, possibly, title
Candidates == {[url |-> "u1", title |-> "T1"],
               [url |-> "u2", title |-> Missing],
               [url |-> Missing, title |-> "T3"]}

\* search_tool.search returns a list of candidates with distinct urls
BrokerReturns == {s \in SeqsUpTo(Candidates, MaxCand) :
                     \A i, j \in 1..Len(s) : i # j => s[i] # s[j]}

\* scraper.scrape(url): text, None, "" or an exception
ExtractOutcomes == {"text", "none", "empty", "raise"}

ContentOf(url) == <<"content of", url>>

\* result.get('title', '')
GetTitle(r) == IF r.title = Missing THEN "" ELSE r.title

\* lines 84-89: the item appended to all_content
ContentItem(r) == [url |-> r.url, title |-> GetTitle(r), content |-> ContentOf(r.url)]

\* What content_analyzer.analyze may hand back: the items, some of them,
\* none of them, or a list holding an item that lacks "title".
RelevanceReturns(all_content) ==
    {all_content, <<>>} \cup
    (IF all_content = <<>> THEN {}
     ELSE {SubSeq(all_content, 1, 1),
           <<[url |-> all_content[1].url, title |-> Missing,
              content |-> all_content[1].content]>>})

NoResponse == [keys |-> {}, summary |-> <<>>]

\* What response_generator.generate may hand back
SynthReturns(q) ==
    {[keys |-> {"summary", "detailed_response", "highlights"},
      summary |-> <<"Summary for", q>>],
     NoResponse}

----------------------------------------------------------------------------
(* Messages and results *)

\* research_agent.py line 137
NoResultsMessage(q) ==
    <<"I couldn't find any information about '", q,
      "'. Could you try rephrasing your question or providing more details?">>

\* research_agent.py line 151
NoContentMessage ==
    <<"I found some relevant sources, but couldn't extract their content. This might be due to access restrictions or complex page structures.">>

ResultKeysSuccess == {"query", "analysis", "sources", "summary",
                      "detailed_response", "highlights", "success"}
ResultKeysShort == {"query", "analysis", "sources", "summary", "success",
                    "error_type"}
ResultKeysError == {"success", "error_type", "message", "query", "summary",
                    "sources"}

NoResult == [keys |-> {}, query |-> "", analysis |-> NoAnalysis, sources |-> <<>>,
             summary |-> <<>>, success |-> FALSE, error_type |-> "",
             message |-> <<>>]

\* [{"url": r["url"], "title": r.get("title", "")} for r in search_results]
SourcePairs(rs) == [i \in 1..Len(rs) |-> [url |-> rs[i].url, title |-> GetTitle(rs[i])]]

\* mutant: the no-results result carries the tag of the no-content one
NoResultsResult_WrongTag(q, qa) ==
    [keys |-> ResultKeysShort, query |-> q, analysis |-> qa, sources |-> <<>>,
     summary |-> NoResultsMessage(q), success |-> FALSE,
     error_type |-> "extraction_failed", message |-> <<>>]

\* _handle_no_results: the dict returned
NoResultsResult(q, qa) ==
    [keys |-> ResultKeysShort, query |-> q, analysis |-> qa, sources |-> <<>>,
     summary |-> NoResultsMessage(q), success |-> FALSE,
     error_type |-> "no_results", message |-> <<>>]

\* mutant: the no-content result drops the candidates
NoContentResult_NoSources(q, qa, rs) ==
    [keys |-> ResultKeysShort, query |-> q, analysis |-> qa, sources |-> <<>>,
     summary |-> NoContentMessage, success |-> FALSE,
     error_type |-> "extraction_failed", message |-> <<>>]

\* _handle_no_content: the dict returned
NoContentResult(q, qa, rs) ==
    [keys |-> ResultKeysShort, query |-> q, analysis |-> qa,
     sources |-> SourcePairs(rs),
     summary |-> NoContentMessage, success |-> FALSE,
     error_type |-> "extraction_failed", message |-> <<>>]

\* research: the dict returned on success (lines 119-127)
SuccessResult(q, qa, fc, resp) ==
    [keys |-> ResultKeysSuccess, query |-> q, analysis |-> qa,
     sources |-> [i \in 1..Len(fc) |-> [url |-> fc[i].url, title |-> fc[i].title]],
     summary |-> resp.summary, success |-> TRUE, error_type |-> "",
     message |-> <<>>]

----------------------------------------------------------------------------
(* src/utils/error_handler.py: handle_error *)

\* str.lower(), on the words of the model
Lower(w) ==
    CASE w = "API_KEY" -> "api_key"
      [] w = "Invalid" -> "invalid"
      [] w = "Permission" -> "permission"
      [] w = "France" -> "france"
      [] w = "Capital" -> "capital"
      [] w = "Paris" -> "paris"
      [] w = "Parisian" -> "parisian"
      [] w = "Cooking" -> "cooking"
      [] OTHER -> w

LowerAll(ws) == Eager([i \in 1..Len(ws) |-> Lower(ws[i])])

\* the keys of error_messages (lines 31-39)
MappedErrors == {"ConnectionError", "Timeout", "JSONDecodeError", "ValueError",
                 "KeyError", "AttributeError", "LLMProviderError"}

\* lines 41-49: the message chosen for the error
ErrorText(e) ==
    IF e.cls \in MappedErrors THEN <<"message for", e.cls>>
    ELSE IF Range(LowerAll(e.text)) \cap {"api_key", "apikey"} # {}
         THEN <<"There was an authentication issue with one of the services I use. Please check API key configurations.">>
    ELSE IF Range(LowerAll(e.text)) \cap {"permission", "access"} # {}
         THEN <<"I don't have permission to access some content needed for your request.">>
    ELSE <<"I encountered an unexpected error while processing your request. Please try again or rephrase your query.">>

\* lines 51-53: the query is added when it is not empty
ErrorMessage(e, q) ==
    IF q # "" THEN ErrorText(e) \o <<" Your query was: '", q, "'">> ELSE ErrorText(e)

\* lines 55-62: the dict returned
handle_error(e, q) ==
    [keys |-> ResultKeysError, query |-> q, analysis |-> NoAnalysis,
     sources |-> <<>>, summary |-> ErrorMessage(e, q), success |-> FALSE,
     error_type |-> e.cls, message |-> ErrorMessage(e, q)]

----------------------------------------------------------------------------
(* ResearchAgent.research, one step per collaborator call or history update *)

IdleFrame ==
    [pc |-> "idle", query |-> "", query_analysis |-> NoAnalysis,
     search_results |-> <<>>, idx |-> 1, all_content |-> <<>>,
     filtered_content |-> <<>>, response |-> NoResponse, exc |-> NoExc,
     result |-> NoResult,
     n_user |-> 0, n_asst |-> 0,
     invoked |-> [c \in Collaborators |-> 0],
     returned |-> {}, extract_log |-> <<>>]

\* history fields of the frame: how often a collaborator was called, which
\* collaborators returned normally, what each extraction gave
Invoke(f, c) == [f EXCEPT !.invoked[c] = @ + 1]
Returned(f, c) == [f EXCEPT !.returned = @ \cup {c}]

\* an exception leaves the try block for the handler of line 129
Raise(f, e) == [f EXCEPT !.pc = "except", !.exc = e]

Quiet(t) == call[t].pc \in {"idle", "done"}
AllQuiet == \A t \in Threads : Quiet(t)

\* line 71: if not search_results
AfterSearch(results) == IF results = <<>> THEN "no_results" ELSE "scrape"

\* mutant: the check of line 93 is missing
AfterScrape_NoCheck(all_content) == "filter"

\* line 93: if not all_content, once the loop of line 79 has ended
AfterScrape(all_content) == IF all_content = <<>> THEN "no_content" ELSE "filter"

\* lines 52-54: the call starts and records the user turn
Begin(t, q) ==
    /\ Quiet(t)
    /\ audit.begun < MaxCalls
    /\ conversation_history' = AppendTurn(conversation_history, "user", <<q>>)
    /\ call' = [call EXCEPT ![t] =
                    [IdleFrame EXCEPT !.pc = "classify", !.query = q, !.n_user = 1]]
    /\ audit' = [audit EXCEPT !.begun = @ + 1, !.others = @ + 1,
                              !.last_op = "research"]
    /\ UNCHANGED <<broker, stage, scraper, app>>

\* line 58: query_analyzer.analyze(query, conversation_history)
Classify(t) ==
    /\ call[t].pc = "classify"
    /\ LET f == Invoke(call[t], "classifier") IN
       \/ \E e \in Raised : call' = [call EXCEPT ![t] = Raise(f, e)]
       \/ \E out \in ClassifierReturns(f.query) :
             call' = [call EXCEPT ![t] =
                         [Returned(f, "classifier") EXCEPT
                             !.pc = "search", !.query_analysis = out]]
    /\ UNCHANGED <<conversation_history, audit, broker, stage, scraper, app>>

\* lines 64-72: the arguments are read from query_analysis, then
\* search_tool.search is called
Search(t) ==
    /\ call[t].pc = "search"
    /\ LET f == call[t]
           qa == f.query_analysis IN
       IF ~Has(qa, "search_terms") THEN
           call' = [call EXCEPT ![t] = Raise(f, KeyErrorOf("search_terms"))]
       ELSE IF ~Has(qa, "query_type") THEN
           call' = [call EXCEPT ![t] = Raise(f, KeyErrorOf("query_type"))]
       ELSE
           LET g == Invoke(f, "broker") IN
           \/ \E e \in Raised : call' = [call EXCEPT ![t] = Raise(g, e)]
           \/ \E out \in BrokerReturns :
                 call' = [call EXCEPT ![t] =
                             [Returned(g, "broker") EXCEPT
                                       !.search_results = out,
                                       !.pc = AfterSearch(out),
                                       !.idx = 1, !.all_content = <<>>]]
    /\ UNCHANGED <<conversation_history, audit, broker, stage, scraper, app>>

\* mutant: the item is appended whatever the extraction gave
Collected_Always(all_content, out, item) == Append(all_content, item)

\* lines 82-91: if content, the item is appended; None, "" and an exception
\* of scrape leave all_content as it was
Collected(all_content, out, item) ==
    IF out = "text" THEN Append(all_content, item) ELSE all_content

\* lines 79-94: one turn of the loop over search_results; a candidate
\* without "url" raises in the try and again in its handler (line 91)
Scrape(t) ==
    /\ call[t].pc = "scrape"
    /\ LET f == call[t]
           r == f.search_results[f.idx]
           last == f.idx = Len(f.search_results) IN
       IF r.url = Missing THEN
           call' = [call EXCEPT ![t] = Raise(f, KeyErrorOf("url"))]
       ELSE
           \E out \in ExtractOutcomes :
              LET g == Invoke(f, "extractor")
                  ac == Collected(f.all_content, out, ContentItem(r)) IN
              call' = [call EXCEPT ![t] =
                          [g EXCEPT !.all_content = ac,
                                    !.extract_log = Append(@, out),
                                    !.idx = @ + 1,
                                    !.pc = IF last THEN AfterScrape(ac) ELSE "scrape"]]
    /\ UNCHANGED <<conversation_history, audit, broker, stage, scraper, app>>

\* _handle_no_results (lines 135-147)
HandleNoResults(t) ==
    /\ call[t].pc = "no_results"
    /\ LET f == call[t] IN
       /\ conversation_history' =
              AppendTurn(conversation_history, "assistant", NoResultsMessage(f.query))
       /\ call' = [call EXCEPT ![t] =
                      [f EXCEPT !.pc = "done", !.n_asst = @ + 1,
                                !.result = NoResultsResult(f.query, f.query_analysis)]]
    /\ UNCHANGED <<audit, broker, stage, scraper, app>>

\* _handle_no_content (lines 149-161)
HandleNoContent(t) ==
    /\ call[t].pc = "no_content"
    /\ LET f == call[t] IN
       /\ conversation_history' =
              AppendTurn(conversation_history, "assistant", NoContentMessage)
       /\ call' = [call EXCEPT ![t] =
                      [f EXCEPT !.pc = "done", !.n_asst = @ + 1,
                                !.result = NoContentResult(f.query, f.query_analysis,
                                                           f.search_results)]]
    /\ UNCHANGED <<audit, broker, stage, scraper, app>>

\* lines 98-101: content_analyzer.analyze(query_analysis, all_content)
Filter(t) ==
    /\ call[t].pc = "filter"
    /\ LET f == Invoke(call[t], "relevance") IN
       \/ \E e \in Raised : call' = [call EXCEPT ![t] = Raise(f, e)]
       \/ \E out \in RelevanceReturns(f.all_content) :
             call' = [call EXCEPT ![t] =
                         [Returned(f, "relevance") EXCEPT
                             !.pc = "synthesize", !.filtered_content = out]]
    /\ UNCHANGED <<conversation_history, audit, broker, stage, scraper, app>>

\* lines 108-113: response_generator.generate(...)
Synthesize(t) ==
    /\ call[t].pc = "synthesize"
    /\ LET f == Invoke(call[t], "synthesizer") IN
       \/ \E e \in Raised : call' = [call EXCEPT ![t] = Raise(f, e)]
       \/ \E out \in SynthReturns(f.query) :
             call' = [call EXCEPT ![t] =
                         [Returned(f, "synthesizer") EXCEPT
                             !.pc = "append_summary", !.response = out]]
    /\ UNCHANGED <<conversation_history, audit, broker, stage, scraper, app>>

\* line 116: the assistant turn of a successful call
AppendSummary(t) ==
    /\ call[t].pc = "append_summary"
    /\ LET f == call[t] IN
       IF ~Has(f.response, "summary") THEN
           /\ call' = [call EXCEPT ![t] = Raise(f, KeyErrorOf("summary"))]
           /\ UNCHANGED conversation_history
       ELSE
           /\ conversation_history' =
                  AppendTurn(conversation_history, "assistant", f.response.summary)
           /\ call' = [call EXCEPT ![t] = [f EXCEPT !.pc = "return", !.n_asst = @ + 1]]
    /\ UNCHANGED <<audit, broker, stage, scraper, app>>

\* lines 119-127: the result is built, reading item["url"] and item["title"]
Return(t) ==
    /\ call[t].pc = "return"
    /\ LET f == call[t]
           fc == f.filtered_content IN
       IF \E i \in 1..Len(fc) : fc[i].title = Missing THEN
           /\ call' = [call EXCEPT ![t] = Raise(f, KeyErrorOf("title"))]
           /\ UNCHANGED audit
       ELSE
           /\ call' = [call EXCEPT ![t] =
                          [f EXCEPT !.pc = "done",
                                    !.result = SuccessResult(f.query, f.query_analysis,
                                                             fc, f.response)]]
           /\ audit' = [audit EXCEPT !.successes = @ + 1, !.others = @ - 1]
    /\ UNCHANGED <<conversation_history, broker, stage, scraper, app>>

\* lines 129-133: the handler of the orchestrator's try
Except(t) ==
    /\ call[t].pc = "except"
    /\ LET f == call[t]
           error_response == handle_error(f.exc, f.query) IN
       /\ conversation_history' =
              AppendTurn(conversation_history, "assistant", error_response.message)
       /\ call' = [call EXCEPT ![t] =
                      [f EXCEPT !.pc = "done", !.n_asst = @ + 1,
                                !.result = error_response]]
    /\ UNCHANGED <<audit, broker, stage, scraper, app>>

\* reset_conversation (lines 163-166)
ResetConversation ==
    /\ conversation_history' = ClearedHistory
    /\ audit' = [audit EXCEPT !.successes = 0, !.others = 0, !.last_op = "reset",
                              !.len_before_reset = Len(conversation_history)]
    /\ UNCHANGED <<call, broker, stage, scraper, app>>

Step(t) ==
    \/ Classify(t) \/ Search(t) \/ Scrape(t)
    \/ HandleNoResults(t) \/ HandleNoContent(t)
    \/ Filter(t) \/ Synthesize(t) \/ AppendSummary(t) \/ Return(t) \/ Except(t)

\* src/app.py lines 24-27: the agent the module creates at import, with the
\* provider DEFAULT_LLM_PROVIDER names, "openai" when it is not set
NewApp ==
    [pc |-> "idle", llm_provider |-> "openai", query |-> "", begun |-> 0,
     status |-> 0]

InitOrch ==
    /\ app = NewApp
    /\ conversation_history = <<>>
    /\ call = [t \in Threads |-> IdleFrame]
    /\ audit = [begun |-> 0, successes |-> 0, others |-> 0, last_op |-> "",
                len_before_reset |-> 0]

\* the agent's components are idle until the agent calls them
IdleBroker == [pc |-> "idle"]
IdleStage == [pc |-> "idle"]
IdleScraper == [pc |-> "idle"]

Init == InitOrch /\ broker = IdleBroker /\ stage = IdleStage /\ scraper = IdleScraper

\* One agent used sequentially: a call or a reset starts when no call runs
Caller == 1

Next ==
    \/ \E q \in Queries : AllQuiet /\ Begin(Caller, q)
    \/ Step(Caller)
    \/ AllQuiet /\ ResetConversation

Spec == Init /\ [][Next]_vars

\* The host (src/app.py): one agent shared by the request threads of the web
\* server; /api/research and /api/reset call it with no lock, so the steps
\* of the calls interleave. The collaborators of a call made by the host
\* give one of a few outcomes: the full intent or a connection error, no
\* candidate or one, its text or none, the items given, a summary
HostOutcomes(f) ==
    /\ f.query = "q1"
    /\ f.exc \in {NoExc, Exc("ConnectionError", <<"refused">>)}
    /\ f.pc # "classify" => f.query_analysis.keys \in {{}, IntentKeys}
    /\ f.pc \notin {"classify", "except"} => f.query_analysis.keys = IntentKeys
    /\ f.search_results \in {<<>>, <<[url |-> "u1", title |-> "T1"]>>}
    /\ Range(f.extract_log) \subseteq {"text", "none"}
    /\ f.pc \in {"synthesize", "append_summary", "return", "done"} /\ f.exc = NoExc
           /\ f.all_content # <<>> => f.filtered_content = f.all_content
    /\ f.pc \in {"append_summary", "return"} => Has(f.response, "summary")

NextHost ==
    \E t \in Threads :
        \/ Begin(t, "q1")
        \/ Step(t) /\ HostOutcomes(call'[t])
        \/ ResetConversation

SpecHost == Init /\ [][NextHost]_vars

----------------------------------------------------------------------------
(* The web application (src/app.py), its requests served one after another *)

\* data.get("provider") of a request: absent, or a name
NoProvider == "(none)"
RequestProviders == {NoProvider, "openai", "anthropic", "bogus"}

\* the providers the components of an agent accept (query_analyzer.py
\* lines 29-38); any other name raises ValueError in ResearchAgent.__init__
SupportedProviders == {"openai", "anthropic", "google"}

\* line 57: provider and provider != agent.llm_provider
ProviderDiffers(provider, llm_provider) ==
    provider # NoProvider /\ provider # llm_provider

\* POST /api/research, lines 39-61: the request is read and, when it names
\* another provider, the global agent is replaced by a new ResearchAgent,
\* whose conversation_history is the empty list (research_agent.py line 40).
\* built is whether the constructor of the new agent returned: the client
\* of a provider raises when its key is not configured
AppResearch ==
    /\ app.pc = "idle"
    /\ AllQuiet
    /\ audit.begun < MaxCalls
    /\ \E query \in {Missing, "q1"}, provider \in RequestProviders, built \in BOOLEAN :
          IF query = Missing THEN
              /\ app' = [app EXCEPT !.status = 400]
              /\ UNCHANGED <<conversation_history, audit>>
          ELSE IF ~ProviderDiffers(provider, app.llm_provider) THEN
              /\ app' = [app EXCEPT !.pc = "call", !.query = query,
                                    !.begun = audit.begun]
              /\ UNCHANGED <<conversation_history, audit>>
          ELSE IF provider \in SupportedProviders /\ built THEN
              /\ app' = [app EXCEPT !.pc = "call", !.query = query,
                                    !.begun = audit.begun,
                                    !.llm_provider = provider]
              /\ conversation_history' = <<>>
              /\ audit' = [audit EXCEPT !.successes = 0, !.others = 0,
                                        !.last_op = "new_agent"]
          ELSE
              /\ app' = [app EXCEPT !.status = 500]
              /\ UNCHANGED <<conversation_history, audit>>
    /\ UNCHANGED <<call, broker, stage, scraper>>

\* line 64: agent.research(query) is called
AppCall ==
    /\ app.pc = "call"
    /\ audit.begun = app.begun
    /\ Begin(Caller, app.query)

\* lines 64-67: research has returned and its result is the response
AppRespond ==
    /\ app.pc = "call"
    /\ audit.begun > app.begun
    /\ call[Caller].pc = "done"
    /\ app' = [app EXCEPT !.pc = "idle", !.status = 200]
    /\ UNCHANGED <<conversation_history, call, audit, broker, stage, scraper>>

\* POST /api/reset, lines 76-80
AppReset ==
    /\ app.pc = "idle"
    /\ AllQuiet
    /\ ResetConversation

NextApp ==
    \/ AppResearch
    \/ AppCall
    \/ Step(Caller) /\ HostOutcomes(call'[Caller])
    \/ AppRespond
    \/ AppReset

SpecApp == Init /\ [][NextApp]_vars

----------------------------------------------------------------------------
(* The text of a generative call and its best-effort decode.               *)
(* A text is a sequence of symbols: the JSON punctuation, the double       *)
(* quote, the slash, white space, the code fence, and words (a run of      *)
(* letters or digits is one symbol).                                       *)

DQ == "\""
NL == "\n"
SP == " "
Fence == "FENCE"     \* three backquotes

Ws == {SP, NL}

\* Python values decoded from JSON: a tag and the value
JNone == [t |-> "none", v |-> <<>>]
JInt(n) == [t |-> "int", v |-> n]
JFloat(n) == [t |-> "float", v |-> n]
JBool(b) == [t |-> "bool", v |-> b]
JStr(ws) == [t |-> "str", v |-> ws]
JList(vs) == [t |-> "list", v |-> vs]
JObj(ms) == [t |-> "dict", v |-> ms]

\* the literals json.loads reads from one symbol
Literals ==
    [w \in {"null", "true", "false", "-1", "0", "1", "2", "3", "7", "11",
            "50", "95", "100", "150", "1.0"} |->
        CASE w = "null" -> JNone
          [] w = "true" -> JBool(TRUE)
          [] w = "false" -> JBool(FALSE)
          [] w = "-1" -> JInt(0 - 1)
          [] w = "0" -> JInt(0)
          [] w = "1" -> JInt(1)
          [] w = "2" -> JInt(2)
          [] w = "3" -> JInt(3)
          [] w = "7" -> JInt(7)
          [] w = "11" -> JInt(11)
          [] w = "50" -> JInt(50)
          [] w = "95" -> JInt(95)
          [] w = "100" -> JInt(100)
          [] w = "150" -> JInt(150)
          [] OTHER -> JFloat(1)]

RECURSIVE SkipWs(_, _)
\* the first position at or after i that holds no white space
SkipWs(s, i) == IF i <= Len(s) /\ s[i] \in Ws THEN SkipWs(s, i + 1) ELSE i

\* the first position at or after i that holds symbol c, or 0
IndexFrom(s, c, i) ==
    LET at == {k \in i..Len(s) : s[k] = c} IN
    IF at = {} THEN 0 ELSE CHOOSE k \in at : \A m \in at : k <= m

ParseFail == [ok |-> FALSE, val |-> JNone, pos |-> 0]
ParseOk(v, p) == [ok |-> TRUE, val |-> v, pos |-> p]

\* a JSON string starting at the quote s[j]; a line break inside is an error
ParseString(s, j) ==
    LET k == IndexFrom(s, DQ, j + 1) IN
    IF k = 0 \/ NL \in Range(SubSeq(s, j + 1, k - 1)) THEN ParseFail
    ELSE ParseOk(JStr(SubSeq(s, j + 1, k - 1)), k + 1)

RECURSIVE ParseValue(_, _)
RECURSIVE ParseElements(_, _, _)
RECURSIVE ParseMembers(_, _, _)

\* json.loads, the value starting at or after position i
ParseValue(s, i) ==
    LET j == SkipWs(s, i) IN
    IF j > Len(s) THEN ParseFail
    ELSE IF s[j] = "{" THEN
        LET k == SkipWs(s, j + 1) IN
        IF k <= Len(s) /\ s[k] = "}" THEN ParseOk(JObj(<<>>), k + 1)
        ELSE ParseMembers(s, k, <<>>)
    ELSE IF s[j] = "[" THEN
        LET k == SkipWs(s, j + 1) IN
        IF k <= Len(s) /\ s[k] = "]" THEN ParseOk(JList(<<>>), k + 1)
        ELSE ParseElements(s, k, <<>>)
    ELSE IF s[j] = DQ THEN ParseString(s, j)
    ELSE IF s[j] \in DOMAIN Literals THEN ParseOk(Literals[s[j]], j + 1)
    ELSE ParseFail

\* the elements of a list, after "[" or ","
ParseElements(s, i, acc) ==
    With(ParseValue(s, i), LAMBDA r :
        IF ~r.ok THEN ParseFail
        ELSE LET k == SkipWs(s, r.pos) IN
             IF k > Len(s) THEN ParseFail
             ELSE IF s[k] = "," THEN ParseElements(s, k + 1, Append(acc, r.val))
             ELSE IF s[k] = "]" THEN ParseOk(JList(Append(acc, r.val)), k + 1)
             ELSE ParseFail)

\* the members of an object, after "{" or ","
ParseMembers(s, i, acc) ==
    LET j == SkipWs(s, i) IN
    IF j > Len(s) \/ s[j] # DQ THEN ParseFail
    ELSE LET key == ParseString(s, j) IN
         IF ~key.ok THEN ParseFail
         ELSE LET c == SkipWs(s, key.pos) IN
              IF c > Len(s) \/ s[c] # ":" THEN ParseFail
              ELSE With(ParseValue(s, c + 1), LAMBDA r :
                   IF ~r.ok THEN ParseFail
                   ELSE LET k == SkipWs(s, r.pos)
                            ms == Append(acc, [key |-> key.val.v, val |-> r.val]) IN
                        IF k > Len(s) THEN ParseFail
                        ELSE IF s[k] = "," THEN ParseMembers(s, k + 1, ms)
                        ELSE IF s[k] = "}" THEN ParseOk(JObj(ms), k + 1)
                        ELSE ParseFail)

\* json.loads(text): ok is false for JSONDecodeError
Loads(s) ==
    With(s, LAMBDA text :
        With(ParseValue(text, 1), LAMBDA r :
            IF r.ok /\ SkipWs(text, r.pos) > Len(text) THEN [ok |-> TRUE, val |-> r.val]
            ELSE [ok |-> FALSE, val |-> JNone]))

Positions(s) == [i \in 1..Len(s) |-> i]

Pick(s, ps) == Eager([k \in 1..Len(ps) |-> s[ps[k]]])

\* re.sub(r'//.*?$', '', json_str, flags=re.MULTILINE): a symbol goes when
\* two slashes stand before it, or at it, on its line
RemoveLineComments(s) ==
    LET InComment(i) ==
            \E j \in 1..i :
                /\ j < Len(s) /\ s[j] = "/" /\ s[j + 1] = "/"
                /\ \A k \in j..i : s[k] # NL
        Kept(i) == ~InComment(i) IN
    Pick(s, SelectSeq(Positions(s), Kept))

\* re.sub(r',(\s*[\]}])', r'\1', json_str): a comma goes when a closing
\* bracket or brace is the next symbol that is no white space
RemoveTrailingCommas(s) ==
    LET Kept(i) ==
            ~(s[i] = "," /\ SkipWs(s, i + 1) <= Len(s)
                         /\ s[SkipWs(s, i + 1)] \in {"]", "}"}) IN
    Pick(s, SelectSeq(Positions(s), Kept))

remove_json_comments(json_str) ==
    With(json_str, LAMBDA text :
        With(RemoveLineComments(text), LAMBDA uncommented :
            RemoveTrailingCommas(uncommented)))

RECURSIVE StripEnd(_)
StripEnd(s) ==
    IF s # <<>> /\ s[Len(s)] \in Ws THEN StripEnd(SubSeq(s, 1, Len(s) - 1)) ELSE s

\* re.search of a fenced block, optionally tagged json, in raw_text: whether
\* it matches, and its group 1
FencedBlock(raw_text) ==
    LET a == IndexFrom(raw_text, Fence, 1)
        b == IF a = 0 THEN 0 ELSE IndexFrom(raw_text, Fence, a + 1)
        c == IF b # 0 /\ raw_text[a + 1] = "json" THEN a + 2 ELSE a + 1
        d == SkipWs(raw_text, c) IN
    IF b = 0 THEN [found |-> FALSE, group |-> <<>>]
    ELSE [found |-> TRUE, group |-> StripEnd(SubSeq(raw_text, d, b - 1))]

\* _extract_and_clean_json(raw_text): the decoded value, or None
ExtractAndCleanJson(raw_text) ==
    With(raw_text, LAMBDA text :
        With(FencedBlock(text), LAMBDA m :
            With(IF m.found THEN Loads(remove_json_comments(m.group))
                 ELSE [ok |-> FALSE, val |-> JNone], LAMBDA inner :
                IF inner.ok THEN inner.val
                ELSE With(Loads(remove_json_comments(text)), LAMBDA whole :
                         IF whole.ok THEN whole.val ELSE JNone))))

----------------------------------------------------------------------------
(* Texts a generative call may return *)

Q(w) == <<DQ, w, DQ>>

\* a string of words separated by single spaces
RECURSIVE Words(_)
Words(ws) ==
    IF Len(ws) <= 1 THEN ws ELSE <<ws[1], SP>> \o Words(Tail(ws))

QS(ws) == <<DQ>> \o Words(ws) \o <<DQ>>

\* one entry of a ranking: {"id": id, "relevance_score": score, "reason": "good"}
RankEntry(id, score) ==
    <<"{">> \o Q("id") \o <<":", SP>> \o id \o <<",", SP>>
            \o Q("relevance_score") \o <<":", SP>> \o score \o <<",", SP>>
            \o Q("reason") \o <<":", SP>> \o Q("good") \o <<"}">>

\* {"id": id}
IdEntry(id) == <<"{">> \o Q("id") \o <<":">> \o id \o <<"}">>

Rankings(body) == <<"{">> \o Q("rankings") \o <<":", SP>> \o body \o <<"}">>

TxtEmpty == <<>>
TxtProse == Words(<<"Sorry", "no", "answer">>)
TxtNull == <<"null">>
TxtNumber == <<"7">>
TxtRankObj ==
    Rankings(<<"[">> \o RankEntry(<<"1">>, <<"95">>) \o <<",", SP>>
                     \o RankEntry(<<"0">>, <<"100">>) \o <<"]">>)
TxtRankList == <<"[">> \o RankEntry(<<"2">>, <<"50">>) \o <<"]">>
TxtRankFenced ==
    <<"Here", SP, "it", SP, "is", ":", NL, Fence, "json", NL>>
    \o Rankings(<<"[">> \o RankEntry(<<"3">>, <<"150">>) \o <<",">>
                        \o RankEntry(<<"0">>, <<"-1">>) \o <<"]">>)
    \o <<NL, Fence, NL, "Done">>
TxtRankComment ==
    <<"{", NL>> \o Q("rankings") \o <<":", SP, "[", NL>>
    \o RankEntry(<<"1">>, <<"50">>) \o <<",", SP, "/", "/", SP, "best", NL, "]", ",", NL, "}">>
TxtRankDup ==
    <<"[">> \o IdEntry(<<"0">>) \o <<",">> \o IdEntry(<<"0">>) \o <<",">>
            \o IdEntry(<<"11">>) \o <<",">> \o IdEntry(<<"-1">>) \o <<",">>
            \o IdEntry(<<"null">>) \o <<"]">>
TxtRankStrId == <<"[">> \o RankEntry(Q("0"), <<"50">>) \o <<"]">>
TxtRankFloatId == <<"[">> \o IdEntry(<<"1.0">>) \o <<"]">>
TxtRankBoolId == <<"[">> \o RankEntry(<<"true">>, Q("high")) \o <<"]">>
TxtRankNonDict == <<"[", "1", ",", SP, "2", "]">>
TxtRankNotList == Rankings(<<"7">>)
TxtRankEmptyDict == Rankings(<<"{", "}">>)
TxtRankUrl ==
    Rankings(<<"[", "{">> \o Q("id") \o <<":", "0", ",">> \o Q("relevance_score")
             \o <<":", "50", ",">> \o Q("reason") \o <<":">>
             \o <<DQ, "see", SP, "http", ":", "/", "/", "x", DQ, "}", "]">>)
TxtIntent ==
    <<"{">> \o Q("query_type") \o <<":", SP>> \o Q("news") \o <<",", SP>>
            \o Q("topics") \o <<":", SP, "[">> \o Q("France") \o <<"]", ",", SP>>
            \o Q("search_terms") \o <<":", SP, "[">>
                \o QS(<<"capital", "of", "France">>) \o <<",", SP>> \o Q("Paris")
                \o <<"]", ",", SP>>
            \o Q("result_limit") \o <<":", SP, "3", "}">>
TxtIntentStringTerms ==
    <<"{">> \o Q("search_terms") \o <<":", SP>> \o Q("Paris") \o <<",", SP>>
            \o Q("result_limit") \o <<":", SP, "0", "}">>
TxtIntentNoTerms ==
    <<"{">> \o Q("search_terms") \o <<":", SP, "[", "]", ",", SP>>
            \o Q("result_limit") \o <<":", SP, "-1", "}">>
TxtSynth ==
    <<"{">> \o Q("summary") \o <<":", SP>> \o QS(<<"Paris", "it", "is">>) \o <<",", SP>>
            \o Q("detailed_response") \o <<":", SP>> \o QS(<<"Paris", "is", "the", "capital">>)
            \o <<",", SP>>
            \o Q("highlights") \o <<":", SP, "[">> \o Q("Paris") \o <<"]", "}">>
TxtSynthNumber == <<"{">> \o Q("summary") \o <<":", SP, "7", "}">>

ModelTexts ==
    {TxtEmpty, TxtProse, TxtNull, TxtNumber, TxtRankObj, TxtRankList,
     TxtRankFenced, TxtRankComment, TxtRankDup, TxtRankStrId, TxtRankFloatId,
     TxtRankBoolId, TxtRankNonDict, TxtRankNotList, TxtRankEmptyDict, TxtRankUrl,
     TxtIntent, TxtIntentStringTerms, TxtIntentNoTerms, TxtSynth, TxtSynthNumber}

----------------------------------------------------------------------------
(* The retrieval broker: SearchTool (src/src/tools/search_tool.py) *)

MaxTerms == 2       \* search terms of one search() call
MaxItems == 2       \* items one backend response lists
MaxLimit == 3       \* largest limit a caller asks for
MaxSearches == 2    \* search() calls with the same arguments on one SearchTool

\* range(5) in _mock_search, and SEARCH_RESULT_LIMIT when the environment
\* does not set it
MockResults == 5
DefaultResultLimit == 5

\* Python truth value of a decoded value: "if not x"
Falsy(x) ==
    CASE x.t = "none" -> TRUE
      [] x.t \in {"int", "float"} -> x.v = 0
      [] x.t = "bool" -> ~x.v
      [] OTHER -> x.v = <<>>

\* s[:n] with Python's reading of a negative n
Slice(s, n) ==
    IF n >= 0 THEN SubSeq(s, 1, IF n < Len(s) THEN n ELSE Len(s))
    ELSE SubSeq(s, 1, IF Len(s) + n > 0 THEN Len(s) + n ELSE 0)

SearchTerms == {<<"Paris">>, <<"capital", SP, "of", SP, "France">>}

\* item.get("link") of the items a backend response lists
Links == {JStr(<<"u1">>), JStr(<<"u2">>), JNone}

Providers == {"serpapi", "google_cse", "mock"}

\* mutant: without a SerpAPI key the custom search engine is used
ProviderOf_NoFallback(serpapi_key, google_api_key, search_engine_id) ==
    IF serpapi_key THEN "serpapi" ELSE "google_cse"

\* __init__ (lines 28-33): the backend follows from the credentials found
ProviderOf(serpapi_key, google_api_key, search_engine_id) ==
    IF serpapi_key THEN "serpapi"
    ELSE IF google_api_key /\ search_engine_id THEN "google_cse"
    ELSE "mock"

\* what requests.get and response.json() give for one term: an exception, a
\* status other than 200, or data listing items under one of its keys
BackendOutcomes ==
    {[kind |-> k, links |-> <<>>] : k \in {"raise", "status", "empty"}}
    \cup {[kind |-> k, links |-> ls] :
             k \in {"results", "news_results"}, ls \in SeqsUpTo(Links, MaxItems)}

Candidate(url, title, api) == [url |-> url, title |-> title, source_api |-> api]

\* _search_serpapi (lines 86-142); organic results carry no source_api
search_serpapi(out) ==
    IF out.kind \in {"status", "empty"} THEN <<>>
    ELSE [i \in 1..Len(out.links) |->
             Candidate(out.links[i], <<"title">>,
                       IF out.kind = "results" THEN Missing ELSE "serpapi")]

\* _search_google_cse (lines 144-189): only "items" is read
search_google_cse(out) ==
    IF out.kind # "results" THEN <<>>
    ELSE [i \in 1..Len(out.links) |->
             Candidate(out.links[i], <<"title">>, "google_cse")]

Digits == <<"1", "2", "3", "4", "5", "6">>

\* query.lower().replace(" ", "-") and query.replace(" ", "_")
Sanitized(query) ==
    [i \in 1..Len(query) |-> IF query[i] = SP THEN "-" ELSE Lower(query[i])]
WikiTerm(query) ==
    [i \in 1..Len(query) |-> IF query[i] = SP THEN "_" ELSE query[i]]

MockDomains == <<"wikipedia.org", "blog.example.com", "news.example.com",
                 "research.example.org", "academic.example.edu">>

\* _mock_search (lines 191-253)
mock_search(query, is_news) ==
    LET listed == [i \in 1..MockResults |->
            IF is_news THEN
                Candidate(JStr(<<"https://news.example.com/">> \o Sanitized(query)
                               \o <<"-article-", Digits[i]>>),
                          <<"Latest News About">> \o query \o <<"Article", Digits[i]>>,
                          "mock")
            ELSE
                Candidate(JStr(<<"https://", MockDomains[((i - 1) % 5) + 1], "/">>
                               \o Sanitized(query) \o <<"-", Digits[i]>>),
                          <<"Information About">> \o query \o <<"Result", Digits[i]>>,
                          "mock")]
        wiki == Candidate(JStr(<<"https://en.wikipedia.org/wiki/">> \o WikiTerm(query)),
                          query \o <<"- Wikipedia">>, "mock") IN
    Slice(IF is_news THEN listed ELSE <<wiki>> \o listed, 10)

\* lines 62-68: the backend of the configured provider
TermResults(provider, term, is_news, out) ==
    IF provider = "serpapi" THEN search_serpapi(out)
    ELSE IF provider = "google_cse" THEN search_google_cse(out)
    ELSE mock_search(term, is_news)

\* line 76: any(r["url"] == result["url"] for r in results)
UrlIn(url, results) == \E i \in 1..Len(results) : results[i].url = url

NoDuplicateUrls(rs) ==
    \A i, j \in 1..Len(rs) : rs[i].url = rs[j].url => i = j

\* mutant: every result is appended
RECURSIVE MergeResults_NoDedupe(_, _, _)
MergeResults_NoDedupe(results, term_results, limit) ==
    IF term_results = <<>> \/ Len(results) >= limit THEN results
    ELSE MergeResults_NoDedupe(Append(results, Head(term_results)),
                               Tail(term_results), limit)

\* lines 70-77: the loop over term_results
RECURSIVE MergeResults(_, _, _)
MergeResults(results, term_results, limit) ==
    IF term_results = <<>> \/ Len(results) >= limit THEN results
    ELSE LET result == Head(term_results)
             seen == UrlIn(result.url, results) IN
         MergeResults(IF seen THEN results ELSE Append(results, result),
                      Tail(term_results), limit)

\* len(results) >= limit (lines 59 and 71) and results[:limit] (line 84)
\* raise TypeError unless the limit in force is an integer
Comparable(limit) == Falsy(limit) \/ limit.t = "int"

\* lines 49-50: if not limit: limit = self.result_limit
EffectiveLimit(limit, result_limit) == IF Falsy(limit) THEN result_limit ELSE limit.v

\* search() called with its arguments on a SearchTool built with a provider
\* and a configured result limit
BrokerCalled(terms, qt, limit, provider, result_limit) ==
    [pc |-> "start", search_terms |-> terms, query_type |-> qt,
     limit_arg |-> limit, search_provider |-> provider,
     result_limit |-> result_limit,
     limit |-> 0, is_news_query |-> FALSE, i |-> 1, results |-> <<>>,
     returned |-> <<>>, raised |-> FALSE, exc |-> NoExc,
     searches |-> 1, first |-> <<>>, no_credentials |-> FALSE,
     log |-> <<>>, answers |-> <<>>, repeated |-> {}]

\* lines 49-55
SearchStart ==
    /\ broker.pc = "start"
    /\ broker' = [broker EXCEPT
                     !.limit = EffectiveLimit(broker.limit_arg, broker.result_limit),
                     !.results = <<>>,
                     !.is_news_query = (broker.query_type = "news"),
                     !.pc = "loop"]
    /\ UNCHANGED <<conversation_history, call, audit, stage, scraper, app>>

\* mutant: a failed term empties the results
AfterFailure_Reset(results) == <<>>

\* lines 80-82: except Exception: the error is logged and the loop continues
\* with the results as they are
AfterFailure(results) == results

\* lines 58-82: one turn of the loop over search_terms, while it does not
\* break; log, answers and repeated are history: how each backend call
\* ended, the candidates it gave (none when it raised), and whether an
\* answer repeated a URL or held a URL merged before
SearchTerm ==
    /\ broker.pc = "loop"
    /\ Comparable(broker.limit_arg)
    /\ broker.i <= Len(broker.search_terms)
    /\ Len(broker.results) < broker.limit
    /\ LET term == broker.search_terms[broker.i] IN
       \E out \in IF broker.search_provider = "mock"
                  THEN {[kind |-> "results", links |-> <<>>]} ELSE BackendOutcomes :
          LET term_results == TermResults(broker.search_provider, term,
                                          broker.is_news_query, out)
              merged == IF out.kind = "raise" THEN AfterFailure(broker.results)
                        ELSE MergeResults(broker.results, term_results, broker.limit) IN
          broker' = [broker EXCEPT
                        !.results = merged,
                        !.i = @ + 1,
                        !.log = Append(@, out.kind),
                        !.answers = Append(@, IF out.kind = "raise" THEN <<>>
                                              ELSE term_results),
                        !.repeated =
                            @ \cup (IF NoDuplicateUrls(term_results) THEN {}
                                    ELSE {"within"})
                              \cup (IF \E a \in Range(term_results) :
                                          UrlIn(a.url, broker.results)
                                    THEN {"across"} ELSE {})]
    /\ UNCHANGED <<conversation_history, call, audit, stage, scraper, app>>

\* line 84, when the loop has ended or has broken at line 59; with a limit
\* that cannot be compared, the TypeError of line 59 (of line 84 when there
\* is no term), which no handler of search catches
SearchReturn ==
    /\ broker.pc = "loop"
    /\ IF Comparable(broker.limit_arg) THEN
           /\ broker.i > Len(broker.search_terms) \/ Len(broker.results) >= broker.limit
           /\ broker' = [broker EXCEPT !.returned = Slice(broker.results, broker.limit),
                                       !.pc = "done"]
       ELSE
           broker' = [broker EXCEPT !.raised = TRUE, !.exc = TypeErrorOf("limit"),
                                    !.pc = "done"]
    /\ UNCHANGED <<conversation_history, call, audit, stage, scraper, app>>

\* search() is called again on the same SearchTool with the same arguments;
\* searches counts the calls and first is what the first call returned. The
\* repetition is followed for the offline backend, the one whose answers do
\* not come from the network
SearchAgain ==
    /\ broker.pc = "done"
    /\ broker.search_provider = "mock"
    /\ broker.searches < MaxSearches
    /\ broker' = [BrokerCalled(broker.search_terms, broker.query_type,
                               broker.limit_arg, broker.search_provider,
                               broker.result_limit)
                  EXCEPT !.searches = broker.searches + 1,
                         !.first = IF broker.searches = 1 THEN broker.returned
                                   ELSE broker.first,
                         !.no_credentials = broker.no_credentials]
    /\ UNCHANGED <<conversation_history, call, audit, stage, scraper, app>>

\* the limit a caller passes: None, an integer, or what the intent held as
\* result_limit when that is no number (research_agent.py line 68)
LimitArgs == {JNone, JStr(<<"5">>)} \cup {JInt(n) : n \in (0 - 1)..MaxLimit}

ConfiguredLimits == {2, DefaultResultLimit}

InitBroker ==
    /\ InitOrch
    /\ stage = IdleStage
    /\ scraper = IdleScraper
    /\ \E terms \in SeqsUpTo(SearchTerms, MaxTerms), qt \in {"factual", "news"},
          limit \in LimitArgs, result_limit \in ConfiguredLimits,
          serpapi_key \in BOOLEAN, google_api_key \in BOOLEAN,
          search_engine_id \in BOOLEAN :
          broker = [BrokerCalled(terms, qt, limit,
                                 ProviderOf(serpapi_key, google_api_key,
                                            search_engine_id),
                                 result_limit)
                    EXCEPT !.no_credentials =
                               ~serpapi_key /\ ~google_api_key /\ ~search_engine_id]

NextBroker == SearchStart \/ SearchTerm \/ SearchReturn \/ SearchAgain

SpecBroker == InitBroker /\ [][NextBroker]_vars

----------------------------------------------------------------------------
(* The relevance engine: ContentAnalyzer, Phase A                          *)
(* (src/src/tools/content_analyzer.py, _basic_text_filter)                 *)

MaxDocs == 5        \* documents of an ordinary document list
LongList == 22      \* documents of the long document list
MaxDays == 2        \* days the clock may advance between runs

threshold == 5      \* line 176
ScoreCap == 98      \* line 179
max_results == 20   \* line 187
TopForRanking == 10 \* line 202
FallbackItems == 3  \* lines 59 and 72

Min(a, b) == IF a < b THEN a ELSE b

\* a decoded value as a Python dict's get sees it: the last member with the key
DictGet(ms, key, default) ==
    LET at == {i \in 1..Len(ms) : ms[i].key = key} IN
    IF at = {} THEN default ELSE ms[CHOOSE i \in at : \A m \in at : m <= i].val

DictHas(ms, key) == \E i \in 1..Len(ms) : ms[i].key = key

\* str.split(): the words between white space
RECURSIVE Split(_)
Split(s) ==
    IF s = <<>> THEN <<>>
    ELSE IF Head(s) \in Ws THEN Split(Tail(s))
    ELSE <<Head(s)>> \o Split(Tail(s))

\* len(word) as far as the comparison with 2 needs it
CharLen(w) ==
    CASE w \in {"a", "7"} -> 1
      [] w \in {"of", "is", "an", "to", "in", "on", "at", "by", "or", "it"} -> 2
      [] OTHER -> 3

\* "term in text" and text.count(term) match inside words too
Within(term, w) == term = w \/ <<term, w>> \in {<<"paris", "parisian">>}

TermIn(term, text) == \E i \in 1..Len(text) : Within(term, text[i])

Count(term, text) == Cardinality({i \in 1..Len(text) : Within(term, text[i])})

\* "phrase in text" for a phrase of several words
PhraseIn(phrase, text) ==
    \E i \in 1..Len(text) :
        i + Len(phrase) - 1 <= Len(text) /\ SubSeq(text, i, i + Len(phrase) - 1) = phrase

RECURSIVE Flatten(_)
Flatten(ss) == IF ss = <<>> THEN <<>> ELSE Head(ss) \o Flatten(Tail(ss))

\* what "for x in v" goes through, for a decoded value v: the elements of a
\* list, the keys of a dict, the characters of a string (a character is
\* shorter than any key term, so a string contributes as many one-letter
\* strings as it has symbols); other values are not iterable
Iterable(v) == v.t \in {"list", "dict", "str"}
Elements(v) ==
    CASE v.t = "list" -> v.v
      [] v.t = "dict" -> [i \in 1..Len(v.v) |-> JStr(v.v[i].key)]
      [] OTHER -> [i \in 1..Len(v.v) |-> JStr(<<"a">>)]

\* lines 88-94: term.lower().split() of every search term, then every topic;
\* raises when a value is not iterable or an element is not a string
AllKeyTerms(topics, search_terms) ==
    IF ~Iterable(search_terms) \/ ~Iterable(topics) THEN
        [raised |-> TRUE, exc |-> TypeErrorOf("not iterable"), terms |-> <<>>]
    ELSE LET both == Elements(search_terms) \o Elements(topics) IN
         IF \E i \in 1..Len(both) : both[i].t # "str" THEN
             [raised |-> TRUE, exc |-> Exc("AttributeError", <<"lower">>), terms |-> <<>>]
         ELSE [raised |-> FALSE, exc |-> NoExc,
               terms |-> Flatten([i \in 1..Len(both) |-> Split(LowerAll(both[i].v))])]

common_words == {"the", "a", "an", "and", "or", "but", "in", "on", "at", "to",
                 "for", "with", "by", "about", "of"}

\* line 99: a list, so a term given twice is kept twice
KeyTerms(all_key_terms) ==
    LET Keep(term) == term \notin common_words /\ CharLen(term) > 2 IN
    SelectSeq(all_key_terms, Keep)

RECURSIVE Sum(_)
Sum(ns) == IF ns = <<>> THEN 0 ELSE Head(ns) + Sum(Tail(ns))

\* the published_date of a document: none, a text that is no date, or a date,
\* given as the number of its day
NoDate == [t |-> "none", v |-> 0]
BadDate == [t |-> "str", v |-> 0]
DateOn(day) == [t |-> "date", v |-> day]

\* lines 148-164: the bonus for a recent document; now is the day read from
\* the clock
RecencyBonus(published_date, now) ==
    IF published_date.t # "date" THEN 0
    ELSE LET days_old == now - published_date.v IN
         IF days_old < 30 THEN 10
         ELSE IF days_old < 90 THEN 5
         ELSE IF days_old < 365 THEN 2
         ELSE 0

\* lines 167-173
LengthBonus(content_length) ==
    IF content_length > 1000 THEN 5
    ELSE IF content_length > 500 THEN 3
    ELSE IF content_length > 200 THEN 1
    ELSE 0

\* lines 106-173: the score of one item; search_terms is the list of strings
\* of the intent
RawScore(item, key_terms, search_terms, now) ==
    LET content == LowerAll(item.content.text)
        title == LowerAll(item.title)
        url == LowerAll(item.url)
        n == Len(key_terms)
        title_score == 10 * Cardinality({k \in 1..n : TermIn(key_terms[k], title)})
        url_score == 3 * Cardinality({k \in 1..n : TermIn(key_terms[k], url)})
        content_score ==
            Sum([k \in 1..n |-> Min(5, Count(key_terms[k], content)) * 2])
        phrases == Elements(search_terms)
        phrase_score ==
            Sum([k \in 1..Len(phrases) |->
                   IF Len(Split(phrases[k].v)) > 1
                   THEN (IF PhraseIn(LowerAll(phrases[k].v), content) THEN 15 ELSE 0)
                        + (IF PhraseIn(LowerAll(phrases[k].v), title) THEN 25 ELSE 0)
                   ELSE 0])
        content_length == Len(Split(content)) + item.content.pad IN
    Min(50, title_score) + Min(15, url_score) + content_score + phrase_score
        + RecencyBonus(item.published_date, now) + LengthBonus(content_length)

\* A document's relevance_score is absent until a phase attaches it; Phase B
\* attaches whatever value the ranking holds
NoScore == [t |-> "absent", v |-> <<>>]

Doc(title, url, text, pad, published_date) ==
    [title |-> title, url |-> url, content |-> [text |-> text, pad |-> pad],
     published_date |-> published_date,
     relevance_score |-> NoScore, relevance_reason |-> NoScore]

\* x.get("relevance_score", 0), the sort key of line 184
SortKey(item) == IF item.relevance_score.t = "int" THEN item.relevance_score.v ELSE 0

\* list.sort(key=..., reverse=True) is stable: an item goes after the items
\* whose key is greater, and after the earlier items whose key is equal
SortByScore(items, docs) ==
    LET n == Len(items)
        Key(p) == SortKey(docs[items[p]])
        Rank(p) == 1 + Cardinality({q \in 1..n :
                                       \/ Key(q) > Key(p)
                                       \/ Key(q) = Key(p) /\ q < p}) IN
    Eager([k \in 1..n |-> items[CHOOSE p \in 1..n : Rank(p) = k]])

\* mutant: the score found on the item is added to the new score
Rescore_Accumulating(item, score) ==
    [item EXCEPT !.relevance_score = JInt(Min(ScoreCap, score + SortKey(item)))]

\* lines 179-180: item["relevance_score"] = min(98, score)
Rescore(item, score) == [item EXCEPT !.relevance_score = JInt(Min(ScoreCap, score))]

\* _basic_text_filter (lines 74-188). docs holds the dicts, content_items is
\* the list of their references; the dicts that pass are changed in place
basic_text_filter(query_analysis, docs, content_items, now) ==
    LET topics == DictGet(query_analysis, <<"topics">>, JList(<<>>))
        search_terms == DictGet(query_analysis, <<"search_terms">>, JList(<<>>)) IN
    With(AllKeyTerms(topics, search_terms), LAMBDA all_key_terms :
    IF all_key_terms.raised THEN
        [raised |-> TRUE, exc |-> all_key_terms.exc, docs |-> docs, out |-> <<>>]
    ELSE
        With(KeyTerms(all_key_terms.terms), LAMBDA key_terms :
        With(Eager([j \in DOMAIN docs |->
                      RawScore(docs[j], key_terms, search_terms, now)]), LAMBDA score :
        LET Passes(j) == score[j] > threshold IN
        With(SelectSeq(content_items, Passes), LAMBDA filtered_items :
        With(Eager([j \in DOMAIN docs |->
                      IF j \in Range(filtered_items) THEN Rescore(docs[j], score[j])
                      ELSE docs[j]]), LAMBDA scored :
        [raised |-> FALSE, exc |-> NoExc, docs |-> scored,
         out |-> Slice(SortByScore(filtered_items, scored), max_results)])))))

----------------------------------------------------------------------------
(* The relevance engine, Phase B and analyze *)

\* What a generative call gives: an exception, no text (None), or a text
LlmRaises == [kind |-> "raise", text |-> <<>>]
LlmNoText == [kind |-> "none", text |-> <<>>]
LlmText(text) == [kind |-> "text", text |-> text]

\* ', '.join(x) of the prompts raises unless x yields strings only
JoinRaises(x) ==
    \/ ~Iterable(x)
    \/ x.t = "list" /\ \E i \in 1..Len(x.v) : x.v[i].t # "str"

\* _create_ranking_prompt (lines 338-380) raises when a join does
RankingPromptRaises(query_analysis) ==
    \/ JoinRaises(DictGet(query_analysis, <<"topics">>, JList(<<>>)))
    \/ JoinRaises(DictGet(query_analysis, <<"search_terms">>, JList(<<>>)))

\* mutant: the default ranking scores from 9 down
DefaultRanking_FromNine(n) ==
    JList([k \in 1..Min(10, n) |->
              JObj(<<[key |-> <<"id">>, val |-> JInt(k - 1)],
                     [key |-> <<"relevance_score">>, val |-> JInt(10 - k)]>>)])

\* lines 331 and 336: [{"id": i, "relevance_score": 10 - i} for i in range(min(10, n))]
DefaultRanking(n) ==
    JList([k \in 1..Min(10, n) |->
              JObj(<<[key |-> <<"id">>, val |-> JInt(k - 1)],
                     [key |-> <<"relevance_score">>, val |-> JInt(10 - (k - 1))]>>)])

\* _get_llm_ranking (lines 292-336), once the prompt is built: the ranking
\* for n submitted items
get_llm_ranking(n, llm) ==
    IF llm.kind # "text" THEN DefaultRanking(n)
    ELSE With(ExtractAndCleanJson(llm.text), LAMBDA data :
         IF data.t = "dict" /\ DictHas(data.v, <<"rankings">>)
         THEN DictGet(data.v, <<"rankings">>, JList(<<>>))
         ELSE IF data.t = "list" THEN data
         ELSE DefaultRanking(n))

\* an id as a number: True and False count as 1 and 0
IsNumber(x) == x.t \in {"int", "float", "bool"}
NumberOf(x) == IF x.t = "bool" THEN (IF x.v THEN 1 ELSE 0) ELSE x.v

\* lines 224-229, for one entry of the rankings and n submitted items: the
\* entry is applied, skipped, or raises
EntryOutcome(rank, n) ==
    IF rank.t # "dict" THEN "AttributeError"
    ELSE LET item_id == DictGet(rank.v, <<"id">>, JNone) IN
         IF item_id.t = "none" THEN "skipped"
         ELSE IF ~IsNumber(item_id) THEN "TypeError"
         ELSE IF ~(0 <= NumberOf(item_id) /\ NumberOf(item_id) < n) THEN "skipped"
         ELSE IF item_id.t = "float" THEN "TypeError"
         ELSE "applied"

\* lines 221-229: the loop over rankings. It stops at the first entry that
\* raises; the items are changed in place, so what was changed before an
\* exception stays changed, and an item named twice keeps the later values
ApplyRankings(ranks, items_for_analysis, docs) ==
    LET n == Len(items_for_analysis)
        Raises(k) == EntryOutcome(ranks[k], n) \in {"AttributeError", "TypeError"}
        Applied(k) == EntryOutcome(ranks[k], n) = "applied" IN
    With(SelectSeq(Positions(ranks), Raises), LAMBDA raising :
    With(IF raising = <<>> THEN Len(ranks) ELSE Head(raising) - 1, LAMBDA reached :
    With(SelectSeq(SubSeq(Positions(ranks), 1, reached), Applied), LAMBDA applied :
    LET ItemOf(k) == items_for_analysis[NumberOf(DictGet(ranks[k].v, <<"id">>, JNone)) + 1]
        EntriesOf(j) == {p \in 1..Len(applied) : ItemOf(applied[p]) = j}
        LastOf(j) == ranks[applied[CHOOSE p \in EntriesOf(j) :
                                      \A q \in EntriesOf(j) : q <= p]].v IN
    [raised |-> raising # <<>>,
     exc |-> IF raising = <<>> THEN NoExc
             ELSE IF EntryOutcome(ranks[Head(raising)], n) = "AttributeError"
                  THEN Exc("AttributeError", <<"get">>)
                  ELSE TypeErrorOf("item_id"),
     docs |-> Eager([j \in DOMAIN docs |->
                 IF EntriesOf(j) = {} THEN docs[j]
                 ELSE [docs[j] EXCEPT
                          !.relevance_score =
                              DictGet(LastOf(j), <<"relevance_score">>, JInt(0)),
                          !.relevance_reason =
                              DictGet(LastOf(j), <<"reason">>, JStr(<<>>))]]),
     out |-> Eager([p \in 1..Len(applied) |-> ItemOf(applied[p])])])))

\* lines 232-235: the submitted items whose index no ranking entry names
Unranked(ranks, items_for_analysis) ==
    LET Named(i) == \E k \in 1..Len(ranks) :
                       LET id == DictGet(ranks[k].v, <<"id">>, JNone) IN
                       IsNumber(id) /\ NumberOf(id) = i
        Left(i) == ~Named(i - 1) IN
    Pick(items_for_analysis, SelectSeq(Positions(items_for_analysis), Left))

\* _llm_relevance_ranking (lines 190-237); calls counts the generative calls
llm_relevance_ranking(query_analysis, docs, filtered_items, llm) ==
    With(Slice(filtered_items, TopForRanking), LAMBDA items_for_analysis :
    IF RankingPromptRaises(query_analysis) THEN
        [raised |-> TRUE, exc |-> TypeErrorOf("join"), docs |-> docs, out |-> <<>>,
         calls |-> 0]
    ELSE With(get_llm_ranking(Len(items_for_analysis), llm), LAMBDA rankings :
         IF ~Iterable(rankings) THEN
             [raised |-> TRUE, exc |-> TypeErrorOf("not iterable"), docs |-> docs,
              out |-> <<>>, calls |-> 1]
         ELSE With(Eager(Elements(rankings)), LAMBDA ranks :
              With(ApplyRankings(ranks, items_for_analysis, docs), LAMBDA r :
              IF r.raised THEN
                  [raised |-> TRUE, exc |-> r.exc, docs |-> r.docs, out |-> <<>>,
                   calls |-> 1]
              ELSE [raised |-> FALSE, exc |-> NoExc, docs |-> r.docs,
                    out |-> r.out \o Unranked(ranks, items_for_analysis),
                    calls |-> 1]))))

\* mutant: the fallback gives every input document
FirstItems_All(content_items) == content_items

\* lines 59 and 72: content_items[:3] if len(content_items) > 3 else content_items
FirstItems(content_items) == Slice(content_items, FallbackItems)

\* mutant: the re-rank is asked for whenever an item passed
NeedsRanking_Always(filtered_items) == Len(filtered_items) > 0

\* line 62: if len(filtered_items) > 3
NeedsRanking(filtered_items) == Len(filtered_items) > 3

\* lines 69-72: an exception of either phase ends in the first items
AnalyzeOutcome(raised, exc, out, content_items) ==
    IF raised THEN [raised |-> FALSE, exc |-> NoExc, out |-> FirstItems(content_items)]
    ELSE [raised |-> FALSE, exc |-> NoExc, out |-> out]

\* analyze (lines 42-72). survivors, phase_a and phase_b are history: what
\* Phase A gave, and how Phase B ended ("skipped", "returned", "raised")
analyze(query_analysis, docs, content_items, llm, now) ==
    With(basic_text_filter(query_analysis, docs, content_items, now), LAMBDA a :
    IF a.raised THEN
        AnalyzeOutcome(TRUE, a.exc, <<>>, content_items)
            @@ [docs |-> a.docs, calls |-> 0, phase_a |-> <<>>, phase_a_raised |-> TRUE,
                phase_b |-> "skipped", phase_b_out |-> <<>>]
    ELSE IF a.out = <<>> THEN
        AnalyzeOutcome(FALSE, NoExc, FirstItems(content_items), content_items)
            @@ [docs |-> a.docs, calls |-> 0, phase_a |-> a.out, phase_a_raised |-> FALSE,
                phase_b |-> "skipped", phase_b_out |-> <<>>]
    ELSE IF NeedsRanking(a.out) THEN
        With(llm_relevance_ranking(query_analysis, a.docs, a.out, llm), LAMBDA b :
        AnalyzeOutcome(b.raised, b.exc, b.out, content_items)
            @@ [docs |-> b.docs, calls |-> b.calls, phase_a |-> a.out,
                phase_a_raised |-> FALSE,
                phase_b |-> IF b.raised THEN "raised" ELSE "returned",
                phase_b_out |-> b.out])
    ELSE
        AnalyzeOutcome(FALSE, NoExc, a.out, content_items)
            @@ [docs |-> a.docs, calls |-> 0, phase_a |-> a.out, phase_a_raised |-> FALSE,
                phase_b |-> "skipped", phase_b_out |-> <<>>])

----------------------------------------------------------------------------
(* The classifier: QueryAnalyzer (src/src/agent/query_analyzer.py) *)

Member(k, v) == [key |-> <<k>>, val |-> v]
Str(w) == JStr(<<w>>)

\* str(e) of the exception a failed generative call raises
LlmError == <<"Connection", SP, "refused">>

\* the dict _get_llm_analysis returns when the call or the decode fails
\* (lines 175-181 and 186-192)
DefaultAnalysis(query) ==
    JObj(<<Member("query_type", Str("factual")),
           Member("topics", JList(<<>>)),
           Member("search_terms", JList(<<JStr(query)>>)),
           Member("time_sensitivity", Str("any")),
           Member("required_depth", Str("standard"))>>)

\* _get_llm_analysis (lines 124-192): decoding no text raises inside the try
get_llm_analysis(query, llm) ==
    IF llm.kind # "text" THEN DefaultAnalysis(query)
    ELSE With(ExtractAndCleanJson(llm.text), LAMBDA data :
         IF data.t # "none" THEN data ELSE DefaultAnalysis(query))

\* lines 73-82: the fallback of analyze
FallbackAnalysis(query) ==
    JObj(<<Member("query_type", Str("factual")),
           Member("topics", JList(<<>>)),
           Member("search_terms", JList(<<JStr(query)>>)),
           Member("time_sensitivity", Str("any")),
           Member("required_depth", Str("standard")),
           Member("result_limit", JInt(5))>>)

\* lines 55-69: the analysis is restructured; get raises on what is no dict
StructuredAnalysis(analysis, query) ==
    IF analysis.t # "dict" THEN
        [raised |-> TRUE, exc |-> Exc("AttributeError", <<"get">>), val |-> JNone]
    ELSE LET a == analysis.v
             search_terms == DictGet(a, <<"search_terms">>, JList(<<>>)) IN
         [raised |-> FALSE, exc |-> NoExc,
          val |-> JObj(<<
              Member("query_type", DictGet(a, <<"query_type">>, Str("factual"))),
              Member("topics", DictGet(a, <<"topics">>, JList(<<>>))),
              Member("search_terms",
                     IF Falsy(search_terms) THEN JList(<<JStr(query)>>)
                     ELSE search_terms),
              Member("time_sensitivity", DictGet(a, <<"time_sensitivity">>, Str("any"))),
              Member("required_depth", DictGet(a, <<"required_depth">>, Str("standard"))),
              Member("result_limit", DictGet(a, <<"result_limit">>, JInt(5))),
              Member("additional_context",
                     DictGet(a, <<"additional_context">>, JObj(<<>>)))>>)]

\* mutant: the prompt takes the oldest turn off the list it was given
HistoryAfterPrompt_Popped(history) ==
    IF history = <<>> THEN <<>> ELSE Tail(history)

\* _create_analysis_prompt (lines 227-236) reads the turns of the history
\* into the prompt, the last 6 through a slice (line 231); the list the
\* caller gave is as it was when analyze returns
HistoryAfterPrompt(history) == history

\* mutant: a handler that lets the exception through
Handled_Not(r, fallback) == r

\* an "except Exception" that returns a fallback (query_analyzer.py line 71,
\* response_generator.py line 77)
Handled(r, fallback) ==
    IF r.raised THEN [raised |-> FALSE, exc |-> NoExc, val |-> fallback] ELSE r

\* QueryAnalyzer.analyze (lines 40-82)
qa_analyze(query, llm) ==
    With(get_llm_analysis(query, llm), LAMBDA analysis :
    With(StructuredAnalysis(analysis, query), LAMBDA structured_analysis :
        Handled(structured_analysis, FallbackAnalysis(query))))

----------------------------------------------------------------------------
(* The synthesizer: ResponseGenerator (src/src/agent/response_generator.py) *)

\* lines 203-207: the text could not be decoded
UndecodedSynthesis(query, result) ==
    JObj(<<Member("summary",
                  JStr(<<"Based on my research about '">> \o query
                       \o <<"', I found relevant information but encountered an error formatting it.">>)),
           Member("detailed_response", result),
           Member("highlights", JList(<<>>))>>)

\* mutant: a failed call leaves detailed_response empty
FailedSynthesis_Empty(query, error_text) ==
    JObj(<<Member("summary",
                  JStr(<<"I encountered an error while researching '">> \o query
                       \o <<"'. Please try rephrasing your question or try again later.">>)),
           Member("detailed_response", JStr(<<>>)),
           Member("highlights", JList(<<>>))>>)

\* lines 212-216: the call raised e
FailedSynthesis(query, error_text) ==
    JObj(<<Member("summary",
                  JStr(<<"I encountered an error while researching '">> \o query
                       \o <<"'. Please try rephrasing your question or try again later.">>)),
           Member("detailed_response",
                  JStr(<<"Error processing your request: ">> \o error_text)),
           Member("highlights", JList(<<>>))>>)

\* lines 80-84: the fallback of generate
FallbackResponse(query) ==
    JObj(<<Member("summary",
                  JStr(<<"I found information about '">> \o query
                       \o <<"', but encountered an error while synthesizing a response.">>)),
           Member("detailed_response", JStr(<<>>)),
           Member("highlights", JList(<<>>))>>)

\* _create_synthesis_prompt (lines 222-300) raises when the join of the
\* topics does
SynthesisPromptRaises(query_analysis) ==
    JoinRaises(DictGet(query_analysis, <<"topics">>, JList(<<>>)))

\* _get_llm_synthesis (lines 154-220), once the prompt is built
get_llm_synthesis(query, llm) ==
    IF llm.kind = "raise" THEN FailedSynthesis(query, LlmError)
    ELSE IF llm.kind = "none"
         THEN FailedSynthesis(query, <<"expected", SP, "string">>)
    ELSE With(ExtractAndCleanJson(llm.text), LAMBDA data :
         IF data.t # "none" THEN data ELSE UndecodedSynthesis(query, JStr(llm.text)))

\* lines 55-75 of generate
FormattedResponse(query_analysis, query, llm) ==
    IF SynthesisPromptRaises(query_analysis) THEN
        [raised |-> TRUE, exc |-> TypeErrorOf("join"), val |-> JNone]
    ELSE With(get_llm_synthesis(query, llm), LAMBDA synthesis_result :
         IF synthesis_result.t # "dict" THEN
             [raised |-> TRUE, exc |-> Exc("AttributeError", <<"get">>), val |-> JNone]
         ELSE LET r == synthesis_result.v IN
              [raised |-> FALSE, exc |-> NoExc,
               val |-> JObj(<<
                   Member("summary", DictGet(r, <<"summary">>, JStr(<<>>))),
                   Member("detailed_response", DictGet(r, <<"detailed_response">>, JStr(<<>>))),
                   Member("highlights", DictGet(r, <<"highlights">>, JList(<<>>))),
                   Member("source_evaluation",
                          DictGet(r, <<"source_evaluation">>, JObj(<<>>)))>>)])

\* ResponseGenerator.generate (lines 41-85)
generate(query, query_analysis, llm) ==
    With(FormattedResponse(query_analysis, query, llm), LAMBDA response :
        Handled(response, FallbackResponse(query)))

----------------------------------------------------------------------------
(* One call of a stage, and repeated runs of Phase A *)

MaxRuns == 2        \* direct runs of _basic_text_filter on the same documents
RepeatedEntries == 21   \* entries of the ranking that names one id over and over

RECURSIVE Repeated(_, _)
Repeated(entry, n) ==
    IF n = 1 THEN entry ELSE entry \o <<",">> \o Repeated(entry, n - 1)

TxtRankRepeated == <<"[">> \o Repeated(IdEntry(<<"0">>), RepeatedEntries) \o <<"]">>

LlmOutcomes ==
    {LlmRaises, LlmNoText} \cup {LlmText(t) : t \in ModelTexts \cup {TxtRankRepeated}}

StageQueries == {<<"capital", SP, "of", SP, "France">>, <<"Paris">>}

\* intents as the classifier structures them
Intent(search_terms, topics) ==
    <<Member("query_type", Str("factual")),
      Member("topics", JList([i \in 1..Len(topics) |-> JStr(topics[i])])),
      Member("search_terms",
             JList([i \in 1..Len(search_terms) |-> JStr(search_terms[i])])),
      Member("result_limit", JInt(5))>>

Intents ==
    {Intent(<<Words(<<"capital", "of", "France">>), <<"Paris">>>>, <<<<"France">>>>),
     Intent(<<<<"Paris">>>>, <<>>),
     Intent(<<<<"of">>>>, <<>>)}

Url(path) == <<"https", ":", "/", "/", "e.com", "/", path>>

DCapital ==
    Doc(Words(<<"Capital", "of", "France">>), Url("paris"),
        Words(<<"Paris", "is", "the", "capital", "of", "France">>), 0, NoDate)
DParisian ==
    Doc(Words(<<"Parisian", "Cooking">>), Url("food"),
        Words(<<"Parisian", "Cooking">>), 201, NoDate)
DParisA == Doc(<<"Paris">>, Url("a"), <<"Paris">>, 0, NoDate)
DParisB == Doc(<<"Paris">>, Url("b"), <<"Paris">>, 0, NoDate)
DOther == Doc(<<"Cooking">>, Url("food"), <<"Cooking">>, 1001, BadDate)
DDated == Doc(<<"Paris">>, Url("d"), <<"Paris">>, 0, DateOn(0 - 29))
DStrong ==
    Doc(Words(<<"Capital", "of", "France", "Paris">>), Url("paris") \o <<"/", "france">>,
        Words(<<"Paris", "is", "the", "capital", "of", "France">>), 1001, NoDate)

\* document lists: the first n documents of a repeating pattern
Patterns ==
    {<<DParisA, DParisB, DCapital, DDated, DParisian, DStrong>>,
     <<DOther, DParisA, DOther, DParisB, DDated>>,
     <<DOther>>,
     <<DParisB, DParisA>>}

DocList(pattern, n) == Eager([i \in 1..n |-> pattern[((i - 1) % Len(pattern)) + 1]])

DocLists ==
    {DocList(pt, n) : pt \in Patterns, n \in 0..MaxDocs}
    \cup {DocList(pt, LongList) : pt \in {<<DParisB, DParisA>>}}

\* Histories the orchestrator hands to the classifier and the synthesizer
StageHistories ==
    {<<>>, <<[role |-> "user", content |-> <<"q1">>],
             [role |-> "assistant", content |-> <<"S">>]>>}

NoRun == [now |-> 0, out |-> <<>>, scores |-> <<>>]

\* a stage called with its arguments; docs are the dicts, content_items the
\* list of their references (the position of each)
StageCalled(component, query, query_analysis, docs, history) ==
    [component |-> component, query |-> query, query_analysis |-> query_analysis,
     docs |-> docs, content_items |-> [i \in 1..Len(docs) |-> i],
     history |-> history, history_after |-> history, now |-> 0,
     done |-> FALSE, llm |-> LlmNoText, raised |-> FALSE,
     value |-> JNone, ranked |-> <<>>, scores |-> <<>>,
     calls |-> 0, phase_a |-> <<>>, phase_a_raised |-> FALSE,
     phase_b |-> "skipped", phase_b_out |-> <<>>,
     runs |-> 0, first |-> NoRun, last |-> NoRun]

\* QueryAnalyzer.analyze(query, conversation_history)
ClassifyQuery ==
    /\ stage.component = "classifier" /\ ~stage.done
    /\ \E llm \in LlmOutcomes :
       \E r \in {qa_analyze(stage.query, llm)} :
          stage' = [stage EXCEPT !.done = TRUE, !.llm = llm,
                                 !.raised = r.raised, !.value = r.val,
                                 !.history_after = HistoryAfterPrompt(stage.history),
                                 !.calls = 1]
    /\ UNCHANGED <<conversation_history, call, audit, broker, scraper, app>>

\* the relevance_score each item of a list carries
ScoresOf(items, docs) == [k \in 1..Len(items) |-> docs[items[k]].relevance_score]

\* ContentAnalyzer.analyze(query_analysis, content_items); ranked is the list
\* returned and scores what its documents carry at the return
AnalyzeContent ==
    /\ stage.component = "relevance" /\ ~stage.done
    /\ \E llm \in LlmOutcomes :
       \E r \in {analyze(stage.query_analysis, stage.docs, stage.content_items,
                        llm, stage.now)} :
          stage' = [stage EXCEPT !.done = TRUE, !.llm = llm,
                                 !.raised = r.raised, !.ranked = r.out,
                                 !.scores = ScoresOf(r.out, r.docs),
                                 !.docs = r.docs, !.calls = r.calls,
                                 !.phase_a = r.phase_a,
                                 !.phase_a_raised = r.phase_a_raised,
                                 !.phase_b = r.phase_b,
                                 !.phase_b_out = r.phase_b_out]
    /\ UNCHANGED <<conversation_history, call, audit, broker, scraper, app>>

\* what a run of Phase A returned: the items in order, with the score each carries
RunOf(now, r) ==
    [now |-> now, out |-> r.out, scores |-> ScoresOf(r.out, r.docs)]

\* a direct run of _basic_text_filter on the documents as they are now
BasicTextFilter ==
    /\ stage.component \in {"filter", "relevance"}
    /\ stage.runs < MaxRuns
    /\ \E r \in {basic_text_filter(stage.query_analysis, stage.docs,
                                   stage.content_items, stage.now)} :
       stage' = [stage EXCEPT !.docs = r.docs, !.runs = @ + 1,
                              !.first = IF stage.runs = 0 THEN RunOf(stage.now, r) ELSE @,
                              !.last = RunOf(stage.now, r)]
    /\ UNCHANGED <<conversation_history, call, audit, broker, scraper, app>>

\* a day passes between two runs (datetime.now() of line 153)
Tick ==
    /\ stage.component = "filter"
    /\ stage.now < MaxDays
    /\ stage' = [stage EXCEPT !.now = @ + 1]
    /\ UNCHANGED <<conversation_history, call, audit, broker, scraper, app>>

\* ResponseGenerator.generate(query, query_analysis, filtered_content, history)
GenerateResponse ==
    /\ stage.component = "synthesizer" /\ ~stage.done
    /\ \E llm \in LlmOutcomes :
       \E r \in {generate(stage.query, stage.query_analysis, llm)} :
          stage' = [stage EXCEPT !.done = TRUE, !.llm = llm,
                                 !.raised = r.raised, !.value = r.val,
                                 !.calls = 1]
    /\ UNCHANGED <<conversation_history, call, audit, broker, scraper, app>>

InitStages ==
    /\ InitOrch
    /\ broker = IdleBroker
    /\ scraper = IdleScraper
    /\ \/ \E q \in StageQueries, h \in StageHistories :
             stage = StageCalled("classifier", q, <<>>, <<>>, h)
       \/ \E qa \in Intents, docs \in DocLists, c \in {"relevance", "filter"} :
             stage = StageCalled(c, <<>>, qa, docs, <<>>)
       \/ \E q \in StageQueries, qa \in Intents, h \in StageHistories :
             stage = StageCalled("synthesizer", q, qa, <<DCapital>>, h)

NextStages ==
    ClassifyQuery \/ AnalyzeContent \/ BasicTextFilter \/ Tick \/ GenerateResponse

SpecStages == InitStages /\ [][NextStages]_vars

----------------------------------------------------------------------------
(* The extractor: WebScraper (src/src/tools/scraper.py).                   *)
(* A page text is a sequence of symbols: line breaks and lines; a URL is   *)
(* the sequence of its scheme with "://", its netloc and its path.         *)

MaxScrapes == 3     \* scrape() calls on one WebScraper

\* len(line) of the lines a page text is made of
LineLen(w) ==
    CASE w = "# Title" -> 7
      [] w = "xy" -> 2
      [] w = "P40" -> 40
      [] w = "P60" -> 60
      [] w \in {"P100", "Q100"} -> 100
      [] w = "# No Title" -> 10
      [] OTHER -> 1

RECURSIVE StripStart(_)
StripStart(s) == IF s # <<>> /\ Head(s) \in Ws THEN StripStart(Tail(s)) ELSE s

\* len(content.strip())
StrippedLen(content) ==
    LET s == StripStart(StripEnd(content)) IN
    Sum([i \in 1..Len(s) |-> LineLen(s[i])])

\* s.split(sep) for a separator of one or two line breaks
RECURSIVE SplitAt(_, _)
SplitAt(s, sep) ==
    LET at == {i \in 1..(Len(s) - Len(sep) + 1) : SubSeq(s, i, i + Len(sep) - 1) = sep} IN
    IF at = {} THEN <<s>>
    ELSE LET i == CHOOSE k \in at : \A m \in at : k <= m IN
         <<SubSeq(s, 1, i - 1)>> \o SplitAt(SubSeq(s, i + Len(sep), Len(s)), sep)

\* sep.join(parts)
RECURSIVE Join(_, _)
Join(parts, sep) ==
    IF parts = <<>> THEN <<>>
    ELSE IF Len(parts) = 1 THEN parts[1]
    ELSE parts[1] \o sep \o Join(Tail(parts), sep)

\* line 258: re.sub(r'\n{3,}', '\n\n', content): of a run of line breaks
\* the first two stay
CollapseBreaks(s) ==
    LET Stays(i) == ~(i >= 3 /\ s[i] = NL /\ s[i - 1] = NL /\ s[i - 2] = NL) IN
    Pick(s, SelectSeq(Positions(s), Stays))

\* lines 261-263: the lines of 1 or 2 characters go
DropShortLines(s) ==
    LET Kept(line) == StrippedLen(line) > 2 \/ StrippedLen(line) = 0 IN
    Join(SelectSeq(SplitAt(s, <<NL>>), Kept), <<NL>>)

\* lines 266-271: of equal paragraphs the first stays
UniqueParagraphs(s) ==
    LET paragraphs == SplitAt(s, <<NL, NL>>)
        First(i) == \A j \in 1..(i - 1) : paragraphs[j] # paragraphs[i] IN
    Join(Pick(paragraphs, SelectSeq(Positions(paragraphs), First)), <<NL, NL>>)

\* _clean_content (lines 244-273)
clean_content(content) ==
    IF content = <<>> THEN <<>>
    ELSE UniqueParagraphs(DropShortLines(CollapseBreaks(content)))

\* line 60: the text returned for a page the host policy disallows
RobotsSentinel ==
    <<"[Access to this content is restricted by the website's robots.txt policy]">>

NoText == [t |-> "none", v |-> <<>>]
Text(s) == [t |-> "str", v |-> s]

\* mutant: any scheme passes
InvalidUrl_AnyScheme(url) ==
    \/ url.t = "none"
    \/ url.v = <<>>
    \/ url.v[1] \notin {"http://", "https://", "ftp://"}

\* line 52: not url or not url.startswith(("http://", "https://"))
InvalidUrl(url) ==
    \/ url.t = "none"
    \/ url.v = <<>>
    \/ url.v[1] \notin {"http://", "https://"}

\* urlparse(url) raises ValueError for a netloc with an unmatched bracket
Unparseable(url) == Len(url.v) >= 2 /\ url.v[2] = "[bad"

\* line 94: f"{parsed_url.scheme}://{parsed_url.netloc}"
BaseUrl(url) == <<url.v[1], url.v[2]>>

PathOf(url) == IF Len(url.v) >= 3 THEN url.v[3] ELSE "/"

\* what rp.read() finds at base_url/robots.txt: an exception, or a policy
\* that allows every path, disallows every path, or disallows /private
Policies == {"raise", "allow_all", "disallow_all", "disallow_private"}

\* rp.can_fetch(self.user_agent, url) under a policy that was read
PolicyAllows(policy, url) ==
    CASE policy = "allow_all" -> TRUE
      [] policy = "disallow_all" -> FALSE
      [] policy = "disallow_private" -> PathOf(url) # "/private"
      [] OTHER -> TRUE

\* lines 112-116: the policy could not be read, the host counts as allowed
ReadFailed == TRUE

\* mutant: the check reads the policy again for a host already stored
can_fetch_Uncached(robots_cache, url, policy) ==
    IF Unparseable(url) THEN
        [allowed |-> TRUE, robots_cache |-> robots_cache, read |-> FALSE]
    ELSE LET allowed == IF policy = "raise" THEN ReadFailed
                        ELSE PolicyAllows(policy, url) IN
         [allowed |-> allowed,
          robots_cache |-> [b \in DOMAIN robots_cache \cup {BaseUrl(url)} |->
                               IF b = BaseUrl(url) THEN allowed ELSE robots_cache[b]],
          read |-> TRUE]

\* _can_fetch (lines 82-120): the answer, the cache after it, and whether
\* robots.txt was read; policy is what a read finds
can_fetch(robots_cache, url, policy) ==
    IF Unparseable(url) THEN
        [allowed |-> TRUE, robots_cache |-> robots_cache, read |-> FALSE]
    ELSE IF BaseUrl(url) \in DOMAIN robots_cache THEN
        [allowed |-> robots_cache[BaseUrl(url)], robots_cache |-> robots_cache,
         read |-> FALSE]
    ELSE LET allowed == IF policy = "raise" THEN ReadFailed
                        ELSE PolicyAllows(policy, url) IN
         [allowed |-> allowed,
          robots_cache |-> [b \in DOMAIN robots_cache \cup {BaseUrl(url)} |->
                               IF b = BaseUrl(url) THEN allowed ELSE robots_cache[b]],
          read |-> TRUE]

\* what Article(url) holds after download() and parse(), or their exception;
\* no article here carries a date or authors
Articles ==
    {[kind |-> "raise", title |-> <<>>, text |-> <<>>],
     [kind |-> "parsed", title |-> <<>>, text |-> <<>>],
     [kind |-> "parsed", title |-> <<"Title">>, text |-> <<"P40">>],
     [kind |-> "parsed", title |-> <<"Title">>, text |-> <<"P60">>],
     [kind |-> "parsed", title |-> <<"Title">>, text |-> <<"P100">>],
     [kind |-> "parsed", title |-> <<>>,
      text |-> <<"P100", NL, NL, NL, NL, "xy", NL, "Q100", NL, NL, "P100">>]}

\* _scrape_with_newspaper (lines 122-164)
scrape_with_newspaper(article) ==
    IF article.kind = "raise" THEN NoText
    ELSE LET content_parts ==
                 (IF article.title # <<>> THEN <<<<"# Title", NL>>>> ELSE <<>>)
                 \o (IF article.text # <<>> THEN <<article.text>> ELSE <<>>)
             content == Join(content_parts, <<NL>>) IN
         IF StrippedLen(content) > 50 THEN Text(content) ELSE NoText

\* what _scrape_with_beautifulsoup (lines 166-242) gives for the page it
\* fetches: None for an exception, a status other than 200 or a page with no
\* body, else a text that starts with the title line
PageTexts ==
    {NoText,
     Text(<<"# No Title", NL, NL>>),
     Text(<<"# Title", NL, NL, "P100", NL>>)}

\* line 69: not content or len(content.strip()) < 100
NeedsGeneric(content) ==
    content.t = "none" \/ content.v = <<>> \/ StrippedLen(content.v) < 100

\* line 70: content = self._scrape_with_beautifulsoup(url)
AfterGeneric(content, generic) == generic

\* lines 73-76
Cleaned(content) ==
    IF content.t = "none" \/ content.v = <<>> THEN content
    ELSE Text(clean_content(content.v))

ScrapeUrls ==
    {JNone, JStr(<<>>), JStr(<<"ftp://", "a.com", "/x">>), JStr(<<"a.com/x">>),
     JStr(<<"https://", "a.com", "/x">>), JStr(<<"https://", "a.com", "/private">>),
     JStr(<<"http://", "a.com", "/x">>), JStr(<<"https://", "b.org", "/x">>),
     JStr(<<"https://", "[bad", "/x">>)}

\* a WebScraper as __init__ leaves it (lines 22-40), with history: scrapes
\* counts the calls of scrape, reads the reads of robots.txt per base URL,
\* policy what each read found, stored the first answer stored per base URL
NewScraper(respect_robots) ==
    [pc |-> "idle", respect_robots |-> respect_robots, robots_cache |-> <<>>,
     scrapes |-> 0, reads |-> <<>>, policy |-> <<>>, stored |-> <<>>,
     url |-> JNone, content |-> NoText, result |-> NoText, raised |-> FALSE,
     checked |-> FALSE, fetched |-> 0,
     newspaper_calls |-> 0, beautifulsoup_calls |-> 0,
     structured |-> NoText, generic |-> NoText]

\* scrape(url) is called; lines 52-54
ScrapeStart ==
    /\ scraper.pc \in {"idle", "done"}
    /\ scraper.scrapes < MaxScrapes
    /\ \E url \in ScrapeUrls :
          scraper' = [scraper EXCEPT
                         !.url = url, !.scrapes = @ + 1,
                         !.content = NoText, !.result = NoText, !.raised = FALSE,
                         !.checked = FALSE, !.fetched = 0,
                         !.newspaper_calls = 0, !.beautifulsoup_calls = 0,
                         !.structured = NoText, !.generic = NoText,
                         !.pc = IF InvalidUrl(url) THEN "done" ELSE "robots"]
    /\ UNCHANGED <<conversation_history, call, audit, broker, stage, app>>

\* f with the value y at x, x added to its domain when new
Put(f, x, y) == [k \in DOMAIN f \cup {x} |-> IF k = x THEN y ELSE f[k]]

\* lines 58-60: the permission check, when enabled
CheckRobots ==
    /\ scraper.pc = "robots"
    /\ IF ~scraper.respect_robots THEN
           scraper' = [scraper EXCEPT !.pc = "newspaper"]
       ELSE
           \E policy \in IF ~Unparseable(scraper.url)
                            /\ BaseUrl(scraper.url) \in DOMAIN scraper.policy
                         THEN {scraper.policy[BaseUrl(scraper.url)]} ELSE Policies :
           \E r \in {can_fetch(scraper.robots_cache, scraper.url, policy)} :
              scraper' = [scraper EXCEPT
                  !.checked = TRUE,
                  !.robots_cache = r.robots_cache,
                  !.reads = IF r.read
                            THEN Put(@, BaseUrl(scraper.url),
                                     IF BaseUrl(scraper.url) \in DOMAIN @
                                     THEN @[BaseUrl(scraper.url)] + 1 ELSE 1)
                            ELSE @,
                  !.policy = IF r.read THEN Put(@, BaseUrl(scraper.url), policy) ELSE @,
                  !.stored = IF r.read /\ BaseUrl(scraper.url) \notin DOMAIN @
                             THEN Put(@, BaseUrl(scraper.url), r.allowed) ELSE @,
                  !.result = IF r.allowed THEN @ ELSE Text(RobotsSentinel),
                  !.pc = IF r.allowed THEN "newspaper" ELSE "done"]
    /\ UNCHANGED <<conversation_history, call, audit, broker, stage, app>>

\* line 66: the structured-article extraction
Newspaper ==
    /\ scraper.pc = "newspaper"
    /\ \E article \in Articles :
       \E content \in {scrape_with_newspaper(article)} :
          scraper' = [scraper EXCEPT
                         !.newspaper_calls = @ + 1, !.fetched = @ + 1,
                         !.structured = content, !.content = content,
                         !.pc = IF NeedsGeneric(content) THEN "beautifulsoup"
                                ELSE "clean"]
    /\ UNCHANGED <<conversation_history, call, audit, broker, stage, app>>

\* line 70: the generic extraction
BeautifulSoup ==
    /\ scraper.pc = "beautifulsoup"
    /\ \E generic \in PageTexts :
          scraper' = [scraper EXCEPT
                         !.beautifulsoup_calls = @ + 1, !.fetched = @ + 1,
                         !.generic = generic,
                         !.content = AfterGeneric(scraper.content, generic),
                         !.pc = "clean"]
    /\ UNCHANGED <<conversation_history, call, audit, broker, stage, app>>

\* lines 73-76
ScrapeReturn ==
    /\ scraper.pc = "clean"
    /\ scraper' = [scraper EXCEPT !.result = Cleaned(scraper.content), !.pc = "done"]
    /\ UNCHANGED <<conversation_history, call, audit, broker, stage, app>>

InitScraper ==
    /\ InitOrch
    /\ broker = IdleBroker
    /\ stage = IdleStage
    /\ \E respect_robots \in BOOLEAN : scraper = NewScraper(respect_robots)

NextScraper ==
    ScrapeStart \/ CheckRobots \/ Newspaper \/ BeautifulSoup \/ ScrapeReturn

SpecScraper == InitScraper /\ [][NextScraper]_vars

----------------------------------------------------------------------------

(* Claims about the orchestrator, checked under Spec *)

\* C1: for one agent used sequentially, after N research calls that each
\* ended in success the history holds exactly 2N turns, and right after
\* reset_conversation the history is empty, whatever it held before.
C1_HistoryLength ==
    /\ (AllQuiet /\ audit.others = 0) =>
           Len(conversation_history) = 2 * audit.successes
    /\ audit.last_op = "reset" => Len(conversation_history) = 0

\* a reset of a non-empty history, followed by a successful call
C1_Witness ==
    /\ AllQuiet /\ audit.others = 0 /\ audit.successes = 1
    /\ audit.len_before_reset > 0
    /\ Len(conversation_history) = 2

\* C2: every research call appends exactly one user turn, before the
\* classifier is invoked, and exactly one assistant turn, on every path and
\* for any return value or exception of the collaborators.
C2_OneTurnEach ==
    \A t \in Threads :
        /\ call[t].invoked["classifier"] > 0 => call[t].n_user = 1
        /\ call[t].n_asst <= 1
        /\ call[t].pc = "done" => call[t].n_user = 1 /\ call[t].n_asst = 1

\* C3: when search returns zero candidates, research returns success = false,
\* error_type "no_results" and no sources.
C3_NoResults ==
    \A t \in Threads :
        (/\ call[t].pc = "done"
         /\ "broker" \in call[t].returned
         /\ call[t].search_results = <<>>)
        => /\ call[t].result.keys = ResultKeysShort
           /\ call[t].result.success = FALSE
           /\ call[t].result.error_type = "no_results"
           /\ call[t].result.sources = <<>>

C3_Witness ==
    \E t \in Threads :
        /\ call[t].pc = "done"
        /\ "broker" \in call[t].returned
        /\ call[t].search_results = <<>>
        /\ call[t].result.error_type = "no_results"

\* every candidate was tried and each extraction returned None or ""
AllExtractionsEmpty(f) ==
    /\ "broker" \in f.returned
    /\ f.search_results # <<>>
    /\ Len(f.extract_log) = Len(f.search_results)
    /\ \A i \in 1..Len(f.extract_log) : f.extract_log[i] \in {"none", "empty"}

\* C4 as stated: when search returns candidates and every extraction returns
\* none or empty text, research returns success = false, the tag "no_content"
\* and the {url, title} pairs of all candidates in candidate order.
C4_NoContentAsStated ==
    \A t \in Threads :
        (call[t].pc = "done" /\ AllExtractionsEmpty(call[t]))
        => /\ call[t].result.success = FALSE
           /\ call[t].result.error_type = "no_content"
           /\ call[t].result.sources = SourcePairs(call[t].search_results)

\* C4 as amended: the same, with the tag the code gives, "extraction_failed".
C4_ExtractionFailed ==
    \A t \in Threads :
        (call[t].pc = "done" /\ AllExtractionsEmpty(call[t]))
        => /\ call[t].result.keys = ResultKeysShort
           /\ call[t].result.success = FALSE
           /\ call[t].result.error_type = "extraction_failed"
           /\ Len(call[t].result.sources) = Len(call[t].search_results)
           /\ \A i \in 1..Len(call[t].search_results) :
                 /\ call[t].result.sources[i].url = call[t].search_results[i].url
                 /\ call[t].result.sources[i].title =
                        IF call[t].search_results[i].title = Missing THEN ""
                        ELSE call[t].search_results[i].title

\* two candidates, the second without a title, both extracted to nothing
C4_Witness ==
    \E t \in Threads :
        /\ call[t].pc = "done" /\ AllExtractionsEmpty(call[t])
        /\ Len(call[t].search_results) = 2
        /\ call[t].search_results[2].title = Missing
        /\ call[t].extract_log = <<"none", "empty">>

\* C5: a call whose search returned no candidates never invokes the
\* extractor, the relevance engine or the synthesizer; a call whose every
\* extraction returned none never invokes the relevance engine or the
\* synthesizer; in both, classifier and broker were invoked exactly once.
C5_ShortCircuitsSkip ==
    \A t \in Threads :
        LET f == call[t] IN
        /\ ("broker" \in f.returned /\ f.search_results = <<>>)
           => /\ f.invoked["extractor"] = 0
              /\ f.invoked["relevance"] = 0
              /\ f.invoked["synthesizer"] = 0
              /\ f.invoked["classifier"] = 1
              /\ f.invoked["broker"] = 1
        /\ AllExtractionsEmpty(f)
           => /\ f.invoked["relevance"] = 0
              /\ f.invoked["synthesizer"] = 0
              /\ f.invoked["classifier"] = 1
              /\ f.invoked["broker"] = 1

\* a finished call in which both candidates extracted to nothing
C5_Witness ==
    \E t \in Threads :
        /\ call[t].pc = "done" /\ AllExtractionsEmpty(call[t])
        /\ call[t].invoked["extractor"] = 2
        /\ call[t].invoked["relevance"] = 0

\* the human-readable message of a result: "message" where the dict has it
\* (handle_error), the summary otherwise (the short-circuit results)
MessageOf(result) == IF Has(result, "message") THEN result.message ELSE result.summary

Failed(t) ==
    call[t].pc = "done" /\ call[t].result.keys # {} /\ ~call[t].result.success

\* C11: every result with success = false that research returns (no results,
\* no content, a caught exception) carries a message that contains the query
C11_MessageNamesQuery ==
    \A t \in Threads :
        Failed(t) => call[t].query \in Range(MessageOf(call[t].result))

\* the tags of the error taxonomy, and with them every tag the code holds as
\* a literal: the two short-circuit tags and the classes handle_error knows
Taxonomy ==
    {"ClassificationFailure", "NoResultsFailure", "NoContentFailure",
     "SynthesisFailure", "ExternalCallFailure", "MalformedModelOutput"}

FixedTags == Taxonomy \cup {"no_results", "extraction_failed"} \cup MappedErrors

\* C12: every result with success = false carries an error_type from one
\* fixed, closed set of tags, whatever the class of a caught exception
C12_ClosedTaxonomy ==
    \A t \in Threads : Failed(t) => call[t].result.error_type \in FixedTags

----------------------------------------------------------------------------
(* Claims about the host's concurrent calls, checked under SpecHost *)

\* the history is a sequence of pairs: a user turn, then an assistant turn
Paired(h) ==
    /\ Len(h) % 2 = 0
    /\ \A i \in 1..Len(h) : h[i].role = IF i % 2 = 1 THEN "user" ELSE "assistant"

\* C13: with research and reset calls running concurrently on one agent,
\* once all calls have finished the history is a sequence of user/assistant
\* pairs, and no assistant turn is left without its user turn
C13_Serialized ==
    (AllQuiet /\ \A t \in Threads : call[t].n_asst <= 1) => Paired(conversation_history)

----------------------------------------------------------------------------
(* Claims about the retrieval broker, checked under SpecBroker *)

FirstByUrl(rs) ==
    LET First(i) == \A j \in 1..(i - 1) : rs[j].url # rs[i].url IN
    Pick(rs, SelectSeq(Positions(rs), First))

\* the loop of a finished search ended only when the terms were used up or
\* the limit was reached, and the list returned holds, in order and up to
\* the limit, the candidates of the terms that succeeded, each URL once,
\* those merged before a failure included
FailuresSkipped ==
    /\ Len(broker.log) = Len(broker.search_terms)
           \/ Len(broker.results) >= broker.limit
    /\ broker.returned =
           IF broker.limit <= 0 THEN <<>>
           ELSE LET succeeded == FirstByUrl(Flatten(broker.answers)) IN
                SubSeq(succeeded, 1, Min(broker.limit, Len(succeeded)))

C24_OfflineFallback ==
    broker.pc \in {"start", "loop", "done"} /\ broker.no_credentials =>
        /\ broker.search_provider = "mock"
        /\ (broker.pc = "done" /\ broker.search_terms # <<>>
                /\ broker.limit_arg.t = "int" /\ broker.limit_arg.v > 0) =>
              /\ ~broker.raised
              /\ broker.returned # <<>>
              /\ \A i \in 1..Len(broker.returned) :
                    broker.returned[i].source_api = "mock"
              /\ broker.searches >= 2 => broker.returned = broker.first

C24_Witness ==
    /\ broker.pc = "done" /\ broker.no_credentials /\ broker.searches = 2
    /\ Len(broker.search_terms) = 2 /\ broker.limit_arg = JInt(3)
    /\ Len(broker.returned) = 3 /\ broker.returned = broker.first

----------------------------------------------------------------------------
(* Claims about the relevance engine, the classifier and the synthesizer,  *)
(* checked under SpecStages                                                *)

\* the key terms of an intent (lines 88-99)
TermSet(query_analysis) ==
    KeyTerms(AllKeyTerms(DictGet(query_analysis, <<"topics">>, JList(<<>>)),
                         DictGet(query_analysis, <<"search_terms">>, JList(<<>>))).terms)

Analyzed == stage.component = "relevance" /\ stage.done

\* C6: for an intent with a non-empty term set, the list analyze returns has
\* at most 20 documents and every relevance score a returned document
\* carries is a number from 0 to 98
C6_BoundedOutput ==
    (Analyzed /\ TermSet(stage.query_analysis) # <<>>) =>
        /\ Len(stage.ranked) <= max_results
        /\ \A k \in 1..Len(stage.scores) :
              stage.scores[k].t # "absent" =>
                  /\ stage.scores[k].t = "int"
                  /\ 0 <= stage.scores[k].v /\ stage.scores[k].v <= ScoreCap

OrderStable(run) ==
    \A k, l \in 1..Len(run.out) :
        k < l => \/ run.scores[k].v > run.scores[l].v
                 \/ run.scores[k].v = run.scores[l].v /\ run.out[k] < run.out[l]

ReferenceScore(item, query_analysis, now) ==
    LET search_terms == DictGet(query_analysis, <<"search_terms">>, JList(<<>>))
        terms == Range(TermSet(query_analysis))
        content == LowerAll(item.content.text)
        title == LowerAll(item.title)
        url == LowerAll(item.url)
        RECURSIVE ContentScore(_)
        ContentScore(ts) ==
            IF ts = {} THEN 0
            ELSE LET term == CHOOSE x \in ts : TRUE IN
                 2 * Min(5, Count(term, content)) + ContentScore(ts \ {term})
        phrases == Elements(search_terms)
        phrase_score ==
            Sum([k \in 1..Len(phrases) |->
                   IF Len(Split(phrases[k].v)) > 1
                   THEN (IF PhraseIn(LowerAll(phrases[k].v), content) THEN 15 ELSE 0)
                        + (IF PhraseIn(LowerAll(phrases[k].v), title) THEN 25 ELSE 0)
                   ELSE 0]) IN
    Min(50, 10 * Cardinality({term \in terms : TermIn(term, title)}))
        + Min(15, 3 * Cardinality({term \in terms : TermIn(term, url)}))
        + ContentScore(terms) + phrase_score
        + RecencyBonus(item.published_date, now)
        + LengthBonus(Len(Split(content)) + item.content.pad)

\* C25: a run of Phase A keeps a document exactly when its reference score,
\* computed over the set of the distinct key terms, is greater than 5, and
\* the score a kept document carries is that score, capped at 98
C25_ReferenceScore ==
    (stage.component = "filter" /\ stage.runs >= 1
         /\ Len(stage.content_items) <= max_results) =>
        /\ \A j \in 1..Len(stage.docs) :
              j \in Range(stage.last.out)
                  <=> ReferenceScore(stage.docs[j], stage.query_analysis,
                                     stage.last.now) > threshold
        /\ \A k \in 1..Len(stage.last.out) :
              stage.last.scores[k] =
                  JInt(Min(ScoreCap,
                           ReferenceScore(stage.docs[stage.last.out[k]],
                                          stage.query_analysis, stage.last.now)))

\* C14: analyze returns a non-empty list for a non-empty document list, and
\* when Phase A ran and no document scored above the threshold it returns
\* the first min(3, n) input documents in input order, none of them carrying
\* a relevance score
C14_NeverEmpty ==
    (Analyzed /\ stage.content_items # <<>>) =>
        /\ stage.ranked # <<>>
        /\ (~stage.phase_a_raised /\ stage.phase_a = <<>>) =>
              /\ stage.ranked = SubSeq(stage.content_items, 1,
                                       Min(3, Len(stage.content_items)))
              /\ \A k \in 1..Len(stage.scores) : stage.scores[k] = NoScore

C14_Witness ==
    /\ Analyzed /\ Len(stage.content_items) > 3
    /\ ~stage.phase_a_raised /\ stage.phase_a = <<>>
    /\ stage.ranked = <<1, 2, 3>>
    /\ TermSet(stage.query_analysis) # <<>>

\* the generative call gave nothing that decodes to a JSON object
NoObject(llm) == llm.kind # "text" \/ ExtractAndCleanJson(llm.text).t # "dict"

\* the generative call gave nothing that decodes to a ranking
NoRanking(llm) ==
    \/ llm.kind # "text"
    \/ LET data == ExtractAndCleanJson(llm.text) IN
       data.t # "list" /\ ~(data.t = "dict" /\ DictHas(data.v, <<"rankings">>))

\* the generative call gave a text that decodes to a ranking list: a list,
\* or an object whose rankings member is a list
ParsedRankingList(llm) ==
    /\ ~NoRanking(llm)
    /\ get_llm_ranking(0, llm).t = "list"

\* the id an entry of a ranking names, None when it names none
IdOf(rank) == IF rank.t = "dict" THEN DictGet(rank.v, <<"id">>, JNone) ELSE JNone

\* the submitted documents a ranking names, in ranking order, then the
\* submitted documents it does not name, in Phase A order
RankedThenAbsent(ranks, submitted) ==
    LET InRange(k) == /\ IsNumber(IdOf(ranks[k]))
                      /\ 0 <= NumberOf(IdOf(ranks[k]))
                      /\ NumberOf(IdOf(ranks[k])) < Len(submitted)
        named == SelectSeq(Positions(ranks), InRange)
        ranked == [p \in 1..Len(named) |-> submitted[NumberOf(IdOf(ranks[named[p]])) + 1]]
        Absent(i) == submitted[i] \notin Range(ranked) IN
    ranked \o Pick(submitted, SelectSeq(Positions(submitted), Absent))

\* C15: for any parsed ranking list Phase B returns every submitted
\* document: those the ranking names first, in ranking order, then those it
\* does not name, in Phase A order
C15_AllSubmittedKept ==
    (Analyzed /\ Len(stage.phase_a) > 3 /\ ParsedRankingList(stage.llm)) =>
        LET submitted == Slice(stage.phase_a, TopForRanking) IN
        /\ stage.phase_b = "returned"
        /\ Range(submitted) \subseteq Range(stage.phase_b_out)
        /\ stage.phase_b_out =
               RankedThenAbsent(get_llm_ranking(Len(submitted), stage.llm).v, submitted)

\* C16: when the Phase B call raises, or gives no text that decodes to a
\* list or to an object with rankings, Phase B does not raise and returns
\* the first 10 survivors of Phase A in Phase A order, the document at
\* index i carrying the score 10 - i
C16_DefaultRanking ==
    (Analyzed /\ Len(stage.phase_a) > 3 /\ NoRanking(stage.llm)) =>
        /\ stage.phase_b = "returned"
        /\ stage.phase_b_out = SubSeq(stage.phase_a, 1, Min(10, Len(stage.phase_a)))
        /\ stage.ranked = stage.phase_b_out
        /\ \A i \in 0..Len(stage.ranked) - 1 : stage.scores[i + 1] = JInt(10 - i)

C16_Witness ==
    /\ Analyzed /\ stage.llm = LlmRaises
    /\ Len(stage.phase_a) > 10 /\ stage.phase_b = "returned"
    /\ Len(stage.ranked) = 10 /\ stage.scores[10] = JInt(1)

\* C17: when the classifier call raises, or gives no text that decodes to
\* an object, analyze returns the default intent (search_terms = [query],
\* query_type factual, depth standard) and the conversation history it was
\* given is as it was
C17_DefaultIntent ==
    (stage.done /\ stage.component = "classifier" /\ NoObject(stage.llm)) =>
        /\ ~stage.raised /\ stage.value.t = "dict"
        /\ DictGet(stage.value.v, <<"search_terms">>, JNone) = JList(<<JStr(stage.query)>>)
        /\ DictGet(stage.value.v, <<"query_type">>, JNone) = Str("factual")
        /\ DictGet(stage.value.v, <<"required_depth">>, JNone) = Str("standard")
        /\ stage.history_after = stage.history

C17_Witness ==
    /\ stage.done /\ stage.component = "classifier"
    /\ stage.llm = LlmRaises /\ Len(stage.history) = 2
    /\ DictGet(stage.value.v, <<"search_terms">>, JNone) = JList(<<JStr(stage.query)>>)
    /\ stage.history_after = stage.history

\* C18: whatever the generative call gave, the intent analyze returns has a
\* non-empty list of strings as search_terms and an integer greater than
\* zero as result_limit
C18_WellFormedIntent ==
    (stage.done /\ stage.component = "classifier" /\ ~stage.raised) =>
        /\ stage.value.t = "dict"
        /\ LET search_terms == DictGet(stage.value.v, <<"search_terms">>, JNone)
               result_limit == DictGet(stage.value.v, <<"result_limit">>, JNone) IN
           /\ search_terms.t = "list" /\ search_terms.v # <<>>
           /\ \A i \in 1..Len(search_terms.v) : search_terms.v[i].t = "str"
           /\ result_limit.t = "int" /\ result_limit.v > 0

\* the response of a synthesizer call that ended without a decoded object
FellBack == stage.done /\ stage.component = "synthesizer" /\ NoObject(stage.llm)

DetailedResponse == DictGet(stage.value.v, <<"detailed_response">>, JNone)

\* C19 as stated: when the synthesizer call raises or its text cannot be
\* decoded, the response has a summary naming the query, no highlights, and
\* as detailed_response the raw text of the model if one was obtained and
\* the empty string otherwise
C19_FallbackAsStated ==
    FellBack =>
        /\ ~stage.raised /\ stage.value.t = "dict"
        /\ PhraseIn(stage.query, DictGet(stage.value.v, <<"summary">>, JNone).v)
        /\ DictGet(stage.value.v, <<"highlights">>, JNone) = JList(<<>>)
        /\ DetailedResponse = IF stage.llm.kind = "text" THEN JStr(stage.llm.text)
                              ELSE JStr(<<>>)

\* C19 amended: the summary names the query and there are no highlights;
\* detailed_response is the raw text when the text decodes to nothing, the
\* empty string when it decodes to something that is no object, and
\* "Error processing your request: " followed by the text of the exception
\* when the call raised or gave no text
C19_FallbackByCase ==
    FellBack =>
        /\ ~stage.raised /\ stage.value.t = "dict"
        /\ PhraseIn(stage.query, DictGet(stage.value.v, <<"summary">>, JNone).v)
        /\ DictGet(stage.value.v, <<"highlights">>, JNone) = JList(<<>>)
        /\ stage.llm.kind = "raise" =>
              DetailedResponse = JStr(<<"Error processing your request: ">> \o LlmError)
        /\ stage.llm.kind = "none" =>
              /\ DetailedResponse.t = "str" /\ DetailedResponse.v # <<>>
              /\ Head(DetailedResponse.v) = "Error processing your request: "
        /\ stage.llm.kind = "text" =>
              DetailedResponse = IF ExtractAndCleanJson(stage.llm.text).t = "none"
                                 THEN JStr(stage.llm.text)
                                 ELSE JStr(<<>>)

C19_Witness ==
    /\ FellBack /\ stage.llm = LlmRaises
    /\ DetailedResponse = JStr(<<"Error processing your request: ">> \o LlmError)
    /\ DictGet(stage.value.v, <<"highlights">>, JNone) = JList(<<>>)

IntentFields ==
    {"query_type", "topics", "search_terms", "time_sensitivity", "required_depth",
     "result_limit"}

ResponseFields == {"summary", "detailed_response", "highlights"}

HasKeys(v, keys) == v.t = "dict" /\ \A k \in keys : DictHas(v.v, <<k>>)

\* C10: whatever the generative call gives, the classifier, the relevance
\* engine and the synthesizer return without raising: the classifier an
\* intent, the default one ([query], factual, standard) when no object was
\* decoded; the synthesizer a response, with a summary naming the query and
\* no highlights when no object was decoded; the relevance engine a list of
\* the documents it was given, the first 10 survivors under the default
\* ranking when no ranking was decoded
C10_NeverRaises ==
    stage.done =>
        /\ ~stage.raised
        /\ stage.component = "classifier" =>
              /\ HasKeys(stage.value, IntentFields)
              /\ NoObject(stage.llm) =>
                    /\ DictGet(stage.value.v, <<"search_terms">>, JNone)
                           = JList(<<JStr(stage.query)>>)
                    /\ DictGet(stage.value.v, <<"query_type">>, JNone) = Str("factual")
                    /\ DictGet(stage.value.v, <<"required_depth">>, JNone)
                           = Str("standard")
        /\ stage.component = "synthesizer" =>
              /\ HasKeys(stage.value, ResponseFields)
              /\ NoObject(stage.llm) =>
                    /\ DictGet(stage.value.v, <<"summary">>, JNone).t = "str"
                    /\ PhraseIn(stage.query, DictGet(stage.value.v, <<"summary">>, JNone).v)
                    /\ DictGet(stage.value.v, <<"highlights">>, JNone) = JList(<<>>)
        /\ stage.component = "relevance" =>
              /\ Range(stage.ranked) \subseteq Range(stage.content_items)
              /\ (Len(stage.phase_a) > 3 /\ NoRanking(stage.llm)) =>
                    /\ stage.ranked = Slice(stage.phase_a, TopForRanking)
                    /\ \A k \in 1..Len(stage.scores) : stage.scores[k] = JInt(10 - (k - 1))

C10_Witness ==
    /\ stage.done /\ stage.component = "classifier"
    /\ stage.llm = LlmText(TxtRankList)
    /\ stage.value = FallbackAnalysis(stage.query)

----------------------------------------------------------------------------
\* C29: whatever ranking list the model returned, the list Phase B returns
\* is a permutation of the documents submitted to it: each of the up to 10
\* submitted documents is in it exactly once
C29_PermutationOfSubmitted ==
    (Analyzed /\ Len(stage.phase_a) > 3 /\ stage.phase_b = "returned") =>
        LET submitted == Slice(stage.phase_a, TopForRanking) IN
        /\ Len(stage.phase_b_out) = Len(submitted)
        /\ Range(stage.phase_b_out) = Range(submitted)

----------------------------------------------------------------------------

(* Claims about the structured decode, checked under SpecStages *)

\* the text holds JSON a strict parse accepts, by itself or in its fenced block
Decodable(text) ==
    \/ Loads(text).ok
    \/ FencedBlock(text).found /\ Loads(FencedBlock(text).group).ok

\* C28: for the text a component got from the model, when a strict JSON
\* parse of the whole text succeeds the decode returns the value of that
\* parse, and the decode returns None only for a text that holds no
\* decodable JSON or whose strict parse is null
C28_DecodeFaithful ==
    (stage.done /\ stage.llm.kind = "text") =>
        \E strict \in {Loads(stage.llm.text)} :
        \E data \in {ExtractAndCleanJson(stage.llm.text)} :
            /\ strict.ok => data = strict.val
            /\ data = JNone =>
                  (~Decodable(stage.llm.text) \/ (strict.ok /\ strict.val = JNone))

----------------------------------------------------------------------------

(* Claims about the scrape loop of research, checked under Spec *)

\* every candidate carries "url", as every candidate the search tool builds
\* does (search_tool.py lines 120, 132, 179, 217, 228, 241)
AllHaveUrl(f) == \A i \in 1..Len(f.search_results) : f.search_results[i].url # Missing

\* the items of the candidates whose extraction gave non-empty text, in
\* candidate order
ItemsWithText(f) ==
    LET at == SelectSeq([i \in 1..Len(f.extract_log) |-> i],
                        LAMBDA i : f.extract_log[i] = "text") IN
    [k \in 1..Len(at) |-> ContentItem(f.search_results[at[k]])]

\* C26: in a research call whose candidates carry "url", the extractor is
\* invoked once per candidate in candidate order, a candidate whose
\* extraction raises or gives None or "" is skipped and the later candidates
\* are still extracted, and the list handed to the relevance engine is the
\* items of the candidates whose extraction gave text, in candidate order
C26_EveryCandidateExtracted ==
    \A t \in Threads :
        LET f == call[t] IN
        (f.pc # "idle" /\ AllHaveUrl(f)) =>
            /\ f.invoked["extractor"] = Len(f.extract_log)
            /\ Len(f.extract_log) <= Len(f.search_results)
            /\ f.pc = "scrape" => Len(f.extract_log) = f.idx - 1
            /\ f.all_content = ItemsWithText(f)
            /\ f.invoked["relevance"] > 0 =>
                  /\ Len(f.extract_log) = Len(f.search_results)
                  /\ f.all_content # <<>>
            /\ f.pc = "no_content" =>
                  /\ Len(f.extract_log) = Len(f.search_results)
                  /\ f.all_content = <<>>

C26_Witness ==
    \E t \in Threads :
        /\ call[t].pc = "synthesize"
        /\ AllHaveUrl(call[t])
        /\ call[t].extract_log = <<"raise", "text">>
        /\ Len(call[t].all_content) = 1
        /\ call[t].all_content[1].url = call[t].search_results[2].url

----------------------------------------------------------------------------

(* Claims about the extractor, checked under SpecScraper *)

Scraped == scraper.pc = "done"

\* the URL is a string that starts with http:// or https://
HttpUrl(url) ==
    url.t = "str" /\ url.v # <<>> /\ url.v[1] \in {"http://", "https://"}

\* C21: scrape does not raise for a URL that is a string or None: it returns
\* text or None, and for a URL that is missing or does not start with
\* http:// or https:// it returns None with no permission check and no fetch
C21_ScrapeNeverRaises ==
    Scraped =>
        /\ ~scraper.raised
        /\ scraper.result.t \in {"str", "none"}
        /\ ~HttpUrl(scraper.url) =>
              /\ scraper.result = NoText
              /\ ~scraper.checked /\ scraper.fetched = 0

C21_Witness ==
    /\ Scraped /\ scraper.url = JStr(<<"ftp://", "a.com", "/x">>)
    /\ scraper.result = NoText /\ ~scraper.checked /\ scraper.fetched = 0
    /\ scraper.respect_robots

\* the policy read for the URL's host disallows the URL
PolicyDisallows(url) ==
    /\ HttpUrl(url) /\ ~Unparseable(url)
    /\ BaseUrl(url) \in DOMAIN scraper.policy
    /\ scraper.policy[BaseUrl(url)] # "raise"
    /\ ~PolicyAllows(scraper.policy[BaseUrl(url)], url)

\* C22: when the host policy disallows a URL, scrape returns the fixed
\* sentinel text and invokes neither extraction
C22_DisallowedGivesSentinel ==
    (Scraped /\ scraper.respect_robots /\ PolicyDisallows(scraper.url)) =>
        /\ scraper.result = Text(RobotsSentinel)
        /\ scraper.newspaper_calls = 0 /\ scraper.beautifulsoup_calls = 0

\* robots.txt reads made for the URLs of one network location
ReadsOfHost(netloc) ==
    LET bases == {b \in DOMAIN scraper.reads : b[2] = netloc}
        RECURSIVE Total(_)
        Total(bs) == IF bs = {} THEN 0
                     ELSE LET b == CHOOSE x \in bs : TRUE IN
                          scraper.reads[b] + Total(bs \ {b}) IN
    Total(bases)

\* what the cache holds is what the first check of each base URL stored,
\* allowed when the read failed, and the check just made answered from it
CacheKept ==
    /\ DOMAIN scraper.robots_cache = DOMAIN scraper.stored
    /\ \A b \in DOMAIN scraper.stored :
          /\ scraper.robots_cache[b] = scraper.stored[b]
          /\ scraper.policy[b] = "raise" => scraper.stored[b]
    /\ (scraper.checked /\ ~Unparseable(scraper.url)) =>
          /\ BaseUrl(scraper.url) \in DOMAIN scraper.robots_cache
          /\ scraper.robots_cache[BaseUrl(scraper.url)]
                 <=> ~(scraper.pc = "done" /\ scraper.result = Text(RobotsSentinel))

\* C23 as stated: the policy of a host is read at most once, whatever URLs
\* of the host are checked, and the boolean stored for it is never removed
\* or changed
C23_OneReadPerHost ==
    /\ \A b \in DOMAIN scraper.reads : ReadsOfHost(b[2]) <= 1
    /\ CacheKept

\* C23 amended: the policy is read at most once for a base URL, the scheme
\* and network location of the URLs checked, and the boolean stored for it
\* is never removed or changed
C23_OneReadPerBaseUrl ==
    /\ \A b \in DOMAIN scraper.reads : scraper.reads[b] <= 1
    /\ CacheKept

\* a second URL of a base URL answered from the cache: /private allowed
\* under a policy that disallows it, after /x was checked
C23_Witness ==
    /\ Scraped /\ scraper.scrapes >= 2
    /\ scraper.url = JStr(<<"https://", "a.com", "/private">>)
    /\ <<"https://", "a.com">> \in DOMAIN scraper.policy
    /\ scraper.policy[<<"https://", "a.com">>] = "disallow_private"
    /\ scraper.robots_cache[<<"https://", "a.com">>]
    /\ scraper.reads[<<"https://", "a.com">>] = 1

\* C27: in a scrape of a permitted URL the generic extraction is invoked
\* exactly when the structured extraction gave nothing or a text of fewer
\* than 100 characters; an accepted structured text is returned normalized
\* without the generic extraction; and whenever the structured extraction
\* gave some text, scrape returns text
C27_StructuredTextKept ==
    (scraper.pc = "done" /\ scraper.newspaper_calls = 1) =>
        /\ scraper.beautifulsoup_calls = 1
               <=> (scraper.structured.t = "none"
                    \/ StrippedLen(scraper.structured.v) < 100)
        /\ scraper.beautifulsoup_calls = 0 =>
               scraper.result = Text(clean_content(scraper.structured.v))
        /\ (scraper.structured.t = "str" /\ scraper.structured.v # <<>>) =>
               (scraper.result.t = "str" /\ scraper.result.v # <<>>)

----------------------------------------------------------------------------
(* Claims about the web application, checked under SpecApp *)

IsPrefix(s, t) == Len(s) <= Len(t) /\ SubSeq(t, 1, Len(s)) = s

\* C30: in every step of the web application other than a reset through
\* /api/reset the conversation history keeps the turns it held, unchanged,
\* as a prefix, whatever provider a research request names
C30_HistoryKeptUntilReset ==
    [][AppReset \/ IsPrefix(conversation_history, conversation_history')]_vars
====
